---- MODULE Spec2Model ----
(***************************************************************************)
(* Activity framework of conflicto: the activity state machine             *)
(* (services/activity_framework/state_machine.py), the orchestrator        *)
(* (services/activity_service.py), the transition request schema           *)
(* (models/schemas.py), the kind registry (services/activity_framework/    *)
(* registry.py, registration.py) and the three kinds: polls, Q&A sessions   *)
(* and word clouds (services/activity_types/polling.py, qna.py,            *)
(* word_cloud.py).                                                         *)
(*                                                                         *)
(* Python's None is the empty sequence <<>> and a set optional value v is  *)
(* <<v>>.  Time is the host clock datetime.utcnow() in whole seconds; one  *)
(* handler runs at one instant `now`.                                      *)
(***************************************************************************)
EXTENDS Integers, Sequences, FiniteSets, TLC

VARIABLES
    activities,   \* the activities table: id -> record, or NoActivity
    responses,    \* the user_responses table, in insertion order
    now,          \* datetime.utcnow()
    last,         \* the last request handled and what it returned
    hist,         \* history per activity: what has happened to it so far
    sweepers,     \* the expiry sweeps in progress: position and session rows
    inflight,     \* the submissions in progress: position and the row loaded
    registry      \* ActivityRegistry._registry: kind id -> ActivityTypeInfo

vars == <<activities, responses, now, last, hist, sweepers, inflight, registry>>

----------------------------------------------------------------------------
\* Bounds of the model

MaxTime == 2          \* the clock runs from 0 to MaxTime
MaxDuration == 1      \* caller-supplied duration_seconds range over 0..MaxDuration
MaxResponses == 2     \* rows the user_responses table may hold
MaxHistory == 3       \* entries of a response history handed to calculate_results
MaxVotes == 6         \* responses of a history whose percentages are derived

----------------------------------------------------------------------------
\* Values

None == <<>>
Some(v) == <<v>>

DRAFT == "draft"
PUBLISHED == "published"
ACTIVE == "active"
EXPIRED == "expired"

\* db/enums.py ActivityState
ActivityState == {DRAFT, PUBLISHED, ACTIVE, EXPIRED}

STATUS_DRAFT == "draft"
STATUS_ACTIVE == "active"
STATUS_COMPLETED == "completed"
STATUS_CANCELLED == "cancelled"

\* db/enums.py ActivityStatus
ActivityStatus == {STATUS_DRAFT, STATUS_ACTIVE, STATUS_COMPLETED, STATUS_CANCELLED}

ActivityIds == {"a1", "a2"}
Participants == {1, 2}

NoActivity == [exists |-> FALSE]

\* Target strings a client may send: the four states and two that are not states.
TargetInputs == ActivityState \cup {"ACTIVE", "archived"}

\* Ids an activity is created under in the lifecycle specification
LifecycleIds == {"a1"}

\* dict.get(key, default)
Get(d, key, default) == IF key \in DOMAIN d THEN d[key] ELSE default

\* activity.activity_metadata.get("duration_seconds")
duration_of(act) == Get(act.activity_metadata, "duration_seconds", None)

\* Python truthiness of an optional number: None and 0 are falsy.
Truthy(opt) == opt # None /\ opt[1] # 0

----------------------------------------------------------------------------
\* State machine (state_machine.py)

\* the table with an extra entry DRAFT -> ACTIVE
TRANSITIONS_skip_publish ==
    [s \in ActivityState |->
        CASE s = DRAFT     -> <<PUBLISHED, ACTIVE>>
          [] s = PUBLISHED -> <<ACTIVE, DRAFT>>
          [] s = ACTIVE    -> <<EXPIRED>>
          [] s = EXPIRED   -> <<>>]

\* the table with a way out of EXPIRED
TRANSITIONS_reopen ==
    [s \in ActivityState |->
        CASE s = DRAFT     -> <<PUBLISHED>>
          [] s = PUBLISHED -> <<ACTIVE, DRAFT>>
          [] s = ACTIVE    -> <<EXPIRED>>
          [] s = EXPIRED   -> <<ACTIVE>>]

TRANSITIONS ==
    [s \in ActivityState |->
        CASE s = DRAFT     -> <<PUBLISHED>>
          [] s = PUBLISHED -> <<ACTIVE, DRAFT>>
          [] s = ACTIVE    -> <<EXPIRED>>
          [] s = EXPIRED   -> <<>>]

Range(seq) == {seq[i] : i \in DOMAIN seq}

\* ActivityState(value) raises ValueError for a string that is no member.
IsActivityState(v) == v \in ActivityState

can_transition(current_state, target_state) ==
    IF IsActivityState(current_state) /\ IsActivityState(target_state)
    THEN target_state \in Range(TRANSITIONS[current_state])
    ELSE FALSE

\* the valid targets without the first one
get_valid_transitions_drop_first(current_state) ==
    IF IsActivityState(current_state) /\ TRANSITIONS[current_state] # <<>>
    THEN Tail(TRANSITIONS[current_state])
    ELSE <<>>

get_valid_transitions(current_state) ==
    IF IsActivityState(current_state)
    THEN TRANSITIONS[current_state]
    ELSE <<>>

\* an activation that never sets expires_at
handle_activation_no_expiry(act, t) == act

\* _handle_activation: expires_at = utcnow() + duration when duration is truthy
handle_activation(act, t) ==
    LET duration_seconds == Get(act.activity_metadata, "duration_seconds", None)
    IN  IF Truthy(duration_seconds)
        THEN [act EXCEPT !.expires_at = Some(t + duration_seconds[1])]
        ELSE act

\* the expiry stamp written whether or not expires_at is set
handle_expiration_restamp(act, t) ==
    [act EXCEPT !.expires_at = Some(t)]

\* _handle_expiration: stamp expires_at when it is not set
handle_expiration(act, t) ==
    IF act.expires_at = None
    THEN [act EXCEPT !.expires_at = Some(t)]
    ELSE act

\* the side effects with the expiry stamp also run on entering DRAFT
handle_state_transition_stamp_draft(act, new_state, t) ==
    IF new_state = ACTIVE THEN handle_activation(act, t)
    ELSE IF new_state \in {EXPIRED, DRAFT} THEN handle_expiration(act, t)
    ELSE act

handle_state_transition(act, new_state, t) ==
    IF new_state = ACTIVE THEN handle_activation(act, t)
    ELSE IF new_state = EXPIRED THEN handle_expiration(act, t)
    ELSE act

\* transition that lets force bypass the table everywhere but out of EXPIRED
transition_force_keeps_terminal(act, target_state, force, t) ==
    IF (~force \/ act.state = EXPIRED) /\ ~can_transition(act.state, target_state)
    THEN <<FALSE, act>>
    ELSE <<TRUE,
           handle_state_transition(
               [act EXCEPT !.state = target_state, !.updated_at = t],
               target_state, t)>>

\* transition(activity, target_state, reason, force): the pair
\* <<returned bool, activity after the call>>
transition(act, target_state, force, t) ==
    IF ~force /\ ~can_transition(act.state, target_state)
    THEN <<FALSE, act>>
    ELSE <<TRUE,
           handle_state_transition(
               [act EXCEPT !.state = target_state, !.updated_at = t],
               target_state, t)>>

\* ActivityStateMachine._validate_activation_requirements(activity_config)
validate_activation_requirements(activity_config) ==
    [errors |-> <<>>, warnings |-> <<>>]

\* ActivityStateMachine.validate_state_transition_request
validate_state_transition_request(current_state, target_state, activity_type, activity_config) ==
    IF ~can_transition(current_state, target_state)
    THEN [valid |-> FALSE,
          errors |-> <<"Invalid state transition">>,
          warnings |-> <<>>]
    ELSE LET validation_result ==
                 IF target_state = ACTIVE
                 THEN validate_activation_requirements(activity_config)
                 ELSE [errors |-> <<>>, warnings |-> <<>>]
         IN  [valid |-> Len(validation_result.errors) = 0,
              errors |-> validation_result.errors,
              warnings |-> validation_result.warnings]

----------------------------------------------------------------------------
\* Poll kind (activity_types/polling.py)

\* A JSON value that is a list of strings, and one that is a string (v holds
\* the list, or the one string)
JList(seq) == [t |-> "list", v |-> seq]
JStr(str) == [t |-> "str", v |-> <<str>>]

\* len() of the strings the model uses
TextLen(str) ==
    CASE str = ""      -> 0
      [] str = "LONG"  -> 501
      [] OTHER         -> 1

PollValidateConfig(config) ==
    IF "question" \notin DOMAIN config THEN FALSE
    ELSE IF "options" \notin DOMAIN config THEN FALSE
    ELSE IF TextLen(config.question) = 0 THEN FALSE
    ELSE IF TextLen(config.question) > 500 THEN FALSE
    ELSE IF Len(config.options) < 2 THEN FALSE
    ELSE IF Len(config.options) > 10 THEN FALSE
    ELSE \A i \in DOMAIN config.options :
            /\ TextLen(config.options[i]) # 0
            /\ TextLen(config.options[i]) <= 200

\* PollingActivity.process_response: [ok, reason, payload]
PollReject(reason) == [ok |-> FALSE, reason |-> reason, payload |-> None]

\* process_response without the check of the options against the configuration
PollProcessResponse_any_option(config, participant_id, response_data, t) ==
    LET selected == Get(response_data, "selected_options", JList(<<>>))
        allow_multiple == Get(config, "allow_multiple_choice", FALSE)
    IN  IF selected.t # "list" THEN PollReject("not a list")
        ELSE IF ~allow_multiple /\ Len(selected.v) > 1
             THEN PollReject("multiple choices not allowed")
        ELSE IF Len(selected.v) = 0 THEN PollReject("no option selected")
        ELSE [ok |-> TRUE, reason |-> "",
              payload |-> Some([type |-> "poll_response",
                                participant_id |-> participant_id,
                                selected_options |-> selected.v,
                                timestamp |-> t,
                                anonymous |-> TRUE])]

\* process_response without the check that an option is selected
PollProcessResponse_allow_empty(config, participant_id, response_data, t) ==
    LET selected == Get(response_data, "selected_options", JList(<<>>))
        valid_options == Get(config, "options", <<>>)
        allow_multiple == Get(config, "allow_multiple_choice", FALSE)
    IN  IF selected.t # "list" THEN PollReject("not a list")
        ELSE IF valid_options = <<>> THEN PollReject("no valid options")
        ELSE IF \E i \in DOMAIN selected.v : selected.v[i] \notin Range(valid_options)
             THEN PollReject("invalid option")
        ELSE IF ~allow_multiple /\ Len(selected.v) > 1
             THEN PollReject("multiple choices not allowed")
        ELSE [ok |-> TRUE, reason |-> "",
              payload |-> Some([type |-> "poll_response",
                                participant_id |-> participant_id,
                                selected_options |-> selected.v,
                                timestamp |-> t,
                                anonymous |-> TRUE])]

\* process_response without the single-choice rule
PollProcessResponse_many(config, participant_id, response_data, t) ==
    LET selected == Get(response_data, "selected_options", JList(<<>>))
        valid_options == Get(config, "options", <<>>)
    IN  IF selected.t # "list" THEN PollReject("not a list")
        ELSE IF valid_options = <<>> THEN PollReject("no valid options")
        ELSE IF \E i \in DOMAIN selected.v : selected.v[i] \notin Range(valid_options)
             THEN PollReject("invalid option")
        ELSE IF Len(selected.v) = 0 THEN PollReject("no option selected")
        ELSE [ok |-> TRUE, reason |-> "",
              payload |-> Some([type |-> "poll_response",
                                participant_id |-> participant_id,
                                selected_options |-> selected.v,
                                timestamp |-> t,
                                anonymous |-> TRUE])]

PollProcessResponse(config, participant_id, response_data, t) ==
    LET selected == Get(response_data, "selected_options", JList(<<>>))
        valid_options == Get(config, "options", <<>>)
        allow_multiple == Get(config, "allow_multiple_choice", FALSE)
    IN  IF selected.t # "list" THEN PollReject("not a list")
        ELSE IF valid_options = <<>> THEN PollReject("no valid options")
        ELSE IF \E i \in DOMAIN selected.v : selected.v[i] \notin Range(valid_options)
             THEN PollReject("invalid option")
        ELSE IF ~allow_multiple /\ Len(selected.v) > 1
             THEN PollReject("multiple choices not allowed")
        ELSE IF Len(selected.v) = 0 THEN PollReject("no option selected")
        ELSE [ok |-> TRUE, reason |-> "",
              payload |-> Some(
                  IF Get(config, "anonymous_voting", TRUE)
                  THEN [type |-> "poll_response",
                        participant_id |-> participant_id,
                        selected_options |-> selected.v,
                        timestamp |-> t,
                        anonymous |-> TRUE]
                  ELSE [type |-> "poll_response",
                        participant_id |-> participant_id,
                        selected_options |-> selected.v,
                        timestamp |-> t,
                        anonymous |-> FALSE,
                        participant_info |-> [id |-> participant_id]])]

\* JSON values of a stored response document: null, a number, an object
JNull == [t |-> "null"]
JNum(n) == [t |-> "num", v |-> n]
JDict(d) == [t |-> "dict", v |-> d]

\* The elements a `for option in selected_options` loop visits: the items of
\* a list, the characters of a string (the model's strings have one)
Iterate(j) == j.v

\* `for x in value` raises TypeError for null and for a number
IsIterable(j) == j.t \in {"list", "str"}

RECURSIVE CountIn(_, _)
\* how many items of seq equal x
CountIn(seq, x) ==
    IF seq = <<>> THEN 0
    ELSE (IF Head(seq) = x THEN 1 ELSE 0) + CountIn(Tail(seq), x)

\* response_data.get("selected_options", []) of one entry of the history
PollSelected(entry) == Get(entry.response_data.v, "selected_options", JList(<<>>))

\* An entry on which the loop of calculate_results raises: response_data is
\* not an object (None.get), or selected_options cannot be iterated
PollEntryRaises(entry) ==
    \/ entry.response_data.t # "dict"
    \/ ~IsIterable(PollSelected(entry))

RECURSIVE PollVotes(_, _)
\* the votes the loop adds for option over the history
PollVotes(history, option) ==
    IF history = <<>> THEN 0
    ELSE CountIn(Iterate(PollSelected(Head(history))), option)
            + PollVotes(Tail(history), option)

\* a percentage cut off after the first decimal instead of rounded
PollPercentage_truncate(count, total) == (count * 1000) \div total

\* round(count / total * 100, 1) in tenths of a percent (round half to even)
PollPercentage(count, total) ==
    LET q == (count * 1000) \div total
        r == (count * 1000) % total
    IN  IF 2 * r > total THEN q + 1
        ELSE IF 2 * r < total THEN q
        ELSE IF q % 2 = 0 THEN q ELSE q + 1

\* The maximum of a non-empty set of numbers
Max(S) == CHOOSE m \in S : \A x \in S : x <= m

\* PollingActivity.calculate_results(responses): the results document, or the
\* error document of the except branch
PollCalculateResults(config, history) ==
    LET options == Get(config, "options", <<>>)
        vote_counts == [o \in Range(options) |-> PollVotes(history, o)]
        total_responses == Len(history)
        max_votes == IF Range(options) = {} THEN 0
                     ELSE Max({vote_counts[o] : o \in Range(options)})
    IN  IF \E i \in DOMAIN history : PollEntryRaises(history[i])
        THEN [type |-> "poll_results",
              error |-> Some("Failed to calculate results"),
              total_responses |-> Len(history)]
        ELSE [type |-> "poll_results",
              error |-> None,
              options |-> options,
              vote_counts |-> vote_counts,
              percentages |->
                  [o \in Range(options) |->
                      IF total_responses > 0
                      THEN PollPercentage(vote_counts[o], total_responses)
                      ELSE 0],
              total_responses |-> total_responses,
              most_popular |-> {o \in Range(options) : vote_counts[o] = max_votes}]

\* PollingActivity.get_default_metadata()["duration_seconds"]
PollDefaultDuration == 300

\* PollingActivity.get_default_metadata()
PollDefaultMetadata ==
    [duration_seconds |-> Some(PollDefaultDuration),
     max_responses |-> None,
     allow_multiple_responses |-> FALSE,
     show_live_results |-> TRUE,
     activity_type |-> "poll",
     requires_moderation |-> FALSE]

----------------------------------------------------------------------------
\* Q&A kind (activity_types/qna.py)

\* str.strip() of the texts the model uses
StripText(str) == IF str = " " THEN "" ELSE str

QnaValidateConfig(config) ==
    IF "topic" \notin DOMAIN config THEN FALSE
    ELSE IF TextLen(StripText(config.topic)) = 0 THEN FALSE
    ELSE IF TextLen(config.topic) > 200 THEN FALSE
    ELSE IF \E f \in {"allow_anonymous", "enable_voting", "moderate_questions",
                      "allow_multiple_votes", "show_vote_counts"} :
                f \in DOMAIN config /\ config[f] \notin BOOLEAN
         THEN FALSE
    ELSE IF "max_question_length" \in DOMAIN config
            /\ (config.max_question_length < 10 \/ config.max_question_length > 1000)
         THEN FALSE
    ELSE TRUE

\* f"q_{int(datetime.utcnow().timestamp() * 1000)}_{participant_id}"
QuestionId(t, participant_id) == <<"q", t * 1000, participant_id>>

\* d.get(key) of an optional entry: None when the key is missing
Opt(d, key) == IF key \in DOMAIN d THEN Some(d[key]) ELSE None

\* d.get("type") == ty
HasType(d, ty) == "type" \in DOMAIN d /\ d.type = ty

\* Python truthiness of d.get("question_id"): a missing or null id is falsy
TruthyId(v) == v # None

\* Python truthiness of d.get("participant_id"): missing and 0 are falsy
TruthyParticipant(d) == "participant_id" \in DOMAIN d /\ d.participant_id # 0

\* a status that ignores the moderation flag
SubmissionStatus_approved(moderated) == "approved"

\* "status": "pending" if the moderation flag of the configuration is set,
\* else "approved" (the same expression in qna.py and word_cloud.py)
SubmissionStatus(moderated) == IF moderated THEN "pending" ELSE "approved"

\* QnaActivity._process_question_submission
QnaProcessQuestion(config, participant_id, response_data, t) ==
    LET question_text == StripText(Get(response_data, "question_text", ""))
        max_length == Get(config, "max_question_length", 500)
        allow_anonymous == Get(config, "allow_anonymous", TRUE)
        is_anonymous == Get(response_data, "anonymous", allow_anonymous)
    IN  IF TextLen(question_text) = 0 THEN PollReject("empty question")
        ELSE IF TextLen(question_text) > max_length THEN PollReject("question too long")
        ELSE IF is_anonymous /\ ~allow_anonymous THEN PollReject("anonymous not allowed")
        ELSE [ok |-> TRUE, reason |-> "",
              payload |-> Some([type |-> "question",
                                question_id |-> QuestionId(t, participant_id),
                                participant_id |-> participant_id,
                                question_text |-> question_text,
                                anonymous |-> is_anonymous,
                                timestamp |-> t,
                                status |-> SubmissionStatus(
                                               Get(config, "moderate_questions", FALSE)),
                                vote_count |-> 0,
                                voters |-> <<>>])]

\* QnaActivity._process_vote
QnaProcessVote(config, participant_id, response_data, t) ==
    LET question_id == Get(response_data, "question_id", None)
    IN  IF ~TruthyId(question_id) THEN PollReject("no question_id")
        ELSE IF ~Get(config, "enable_voting", TRUE) THEN PollReject("voting disabled")
        ELSE [ok |-> TRUE, reason |-> "",
              payload |-> Some([type |-> "vote",
                                participant_id |-> participant_id,
                                question_id |-> question_id,
                                timestamp |-> t])]

\* QnaActivity.process_response
QnaProcessResponse(config, participant_id, response_data, t) ==
    IF HasType(response_data, "question")
    THEN QnaProcessQuestion(config, participant_id, response_data, t)
    ELSE IF HasType(response_data, "vote")
    THEN QnaProcessVote(config, participant_id, response_data, t)
    ELSE PollReject("invalid response type")

\* the documents of a history whose type is ty and that the first loop of
\* calculate_results takes up, in the order of the history
QnaEntries(history, ty) ==
    LET docs == [i \in DOMAIN history |-> history[i].response_data.v]
    IN  SelectSeq(docs, LAMBDA d : HasType(d, ty))

\* the ids of the questions dict in insertion order: a question_id stays at
\* the place of its first submission
RECURSIVE QnaQuestionIds(_)
QnaQuestionIds(questions) ==
    IF questions = <<>> THEN <<>>
    ELSE LET rest == QnaQuestionIds(SubSeq(questions, 1, Len(questions) - 1))
             id == Get(questions[Len(questions)], "question_id", None)
         IN  IF ~TruthyId(id) \/ id \in Range(rest) THEN rest ELSE Append(rest, id)

\* questions[question_id] = {...}: the last submission under an id wins
QnaQuestionDoc(questions, id) ==
    LET idx == Max({i \in DOMAIN questions : Get(questions[i], "question_id", None) = id})
    IN  questions[idx]

\* votes[question_id]: the participant_id of every vote entry on the question
\* that has a truthy participant_id, in the order of the history
QnaVotesOn(votes, id) ==
    LET on == SelectSeq(votes, LAMBDA v : /\ Get(v, "question_id", None) = id
                                          /\ TruthyParticipant(v))
    IN  [i \in DOMAIN on |-> on[i].participant_id]

RECURSIVE SetToSeq(_)
\* list(set(...)) of numbers, as a sequence in ascending order
SetToSeq(S) ==
    IF S = {} THEN <<>>
    ELSE LET m == CHOOSE x \in S : \A y \in S : x <= y
         IN  <<m>> \o SetToSeq(S \ {m})

\* every vote entry counted whatever allow_multiple_votes says
QnaVoters_count_all(config, question_votes) ==
    question_votes

\* the voters written to a question: every vote when allow_multiple_votes,
\* the unique participant ids otherwise
QnaVoters(config, question_votes) ==
    IF Get(config, "allow_multiple_votes", FALSE)
    THEN question_votes
    ELSE SetToSeq(Range(question_votes))

\* sorted(questions.values(), key=vote_count, reverse=True): stable
RECURSIVE SortByVotes(_)
SortByVotes(qs) ==
    IF qs = <<>> THEN <<>>
    ELSE LET top == Max({qs[i].vote_count : i \in DOMAIN qs})
         IN  SelectSeq(qs, LAMBDA q : q.vote_count = top)
             \o SortByVotes(SelectSeq(qs, LAMBDA q : q.vote_count # top))

\* QnaActivity.calculate_results(responses)
QnaCalculateResults(config, history) ==
    IF \E i \in DOMAIN history : history[i].response_data.t # "dict"
    THEN [type |-> "qna_results",
          error |-> Some("Failed to calculate results"),
          total_responses |-> Len(history)]
    ELSE
    LET qdocs == QnaEntries(history, "question")
        vdocs == QnaEntries(history, "vote")
        ids == QnaQuestionIds(qdocs)
        voted == {Get(vdocs[i], "question_id", None) : i \in
                     {j \in DOMAIN vdocs :
                         /\ TruthyId(Get(vdocs[j], "question_id", None))
                         /\ TruthyParticipant(vdocs[j])}}
        question(id) ==
            LET d == QnaQuestionDoc(qdocs, id)
                voters == IF id \in voted THEN QnaVoters(config, QnaVotesOn(vdocs, id))
                          ELSE <<>>
            IN  [id |-> id,
                 text |-> Get(d, "question_text", ""),
                 anonymous |-> Get(d, "anonymous", TRUE),
                 participant_id |-> Opt(d, "participant_id"),
                 timestamp |-> Opt(d, "timestamp"),
                 status |-> Get(d, "status", "approved"),
                 vote_count |-> Len(voters),
                 voters |-> voters]
        sorted_questions == SortByVotes([i \in DOMAIN ids |-> question(ids[i])])
        approved_questions == SelectSeq(sorted_questions, LAMBDA q : q.status = "approved")
        pending_questions == SelectSeq(sorted_questions, LAMBDA q : q.status = "pending")
    IN  [type |-> "qna_results",
         error |-> None,
         topic |-> Get(config, "topic", ""),
         total_questions |-> Len(ids),
         total_votes |-> Cardinality({j \in DOMAIN vdocs :
                            /\ TruthyId(Get(vdocs[j], "question_id", None))
                            /\ TruthyParticipant(vdocs[j])}),
         approved_questions |-> approved_questions,
         pending_questions |-> IF ~Get(config, "moderate_questions", FALSE)
                               THEN pending_questions ELSE <<>>,
         most_popular_question |-> IF approved_questions # <<>>
                                   THEN Some(approved_questions[1]) ELSE None]

\* QnaActivity.get_default_metadata()
QnaDefaultMetadata ==
    [duration_seconds |-> Some(900),
     max_responses |-> None,
     allow_multiple_responses |-> TRUE,
     show_live_results |-> TRUE,
     activity_type |-> "qna",
     requires_moderation |-> TRUE]

----------------------------------------------------------------------------
\* Word cloud kind (activity_types/word_cloud.py)

\* A word is the sequence of its characters.  The characters of the model:
\* letters in both cases, the space, the hyphen and a punctuation mark.
Whitespace == {" "}
WordChars == {"a", "b", "c", "d", "A", "B", "C", "D", "_"}

\* a JSON string that is a word
JWord(chars) == [t |-> "str", v |-> chars]

\* str.lower()
LowerChar(c) ==
    CASE c = "A" -> "a"
      [] c = "B" -> "b"
      [] c = "C" -> "c"
      [] c = "D" -> "d"
      [] OTHER   -> c
Lower(w) == [i \in DOMAIN w |-> LowerChar(w[i])]

RECURSIVE LStrip(_)
LStrip(w) == IF w # <<>> /\ Head(w) \in Whitespace THEN LStrip(Tail(w)) ELSE w

RECURSIVE RStrip(_)
RStrip(w) ==
    IF w # <<>> /\ w[Len(w)] \in Whitespace
    THEN RStrip(SubSeq(w, 1, Len(w) - 1))
    ELSE w

\* str.strip()
Strip(w) == RStrip(LStrip(w))

RECURSIVE CollapseWhitespace(_)
\* re.sub(r"\s+", " ", w)
CollapseWhitespace(w) ==
    IF w = <<>> THEN <<>>
    ELSE IF Head(w) \in Whitespace THEN <<" ">> \o CollapseWhitespace(LStrip(w))
    ELSE <<Head(w)>> \o CollapseWhitespace(Tail(w))

\* re.sub(r"[^\w\s-]", "", w)
RemoveSpecial(w) == SelectSeq(w, LAMBDA c : c \in WordChars \cup Whitespace \cup {"-"})

\* the cleaning of _process_word
CleanWord(config, w) ==
    LET stripped == Strip(w)
        cased == IF ~Get(config, "case_sensitive", FALSE) THEN Lower(stripped)
                 ELSE stripped
    IN  RemoveSpecial(CollapseWhitespace(cased))

\* _process_word raises ValueError for the word
WordRaises(config, word) ==
    \/ word.t # "str"
    \/ LET cleaned_word == CleanWord(config, word.v)
           banned_words == {Lower(b) : b \in Range(Get(config, "banned_words", <<>>))}
       IN  \/ cleaned_word = <<>>
           \/ Len(cleaned_word) > Get(config, "max_word_length", 20)
           \/ (~Get(config, "allow_phrases", FALSE) /\ " " \in Range(cleaned_word))
           \/ Lower(cleaned_word) \in banned_words

WordCloudValidateConfig(config) ==
    IF "prompt" \notin DOMAIN config THEN FALSE
    ELSE IF TextLen(StripText(config.prompt)) = 0 THEN FALSE
    ELSE IF TextLen(config.prompt) > 300 THEN FALSE
    ELSE IF "max_word_length" \in DOMAIN config
            /\ (config.max_word_length < 3 \/ config.max_word_length > 50)
         THEN FALSE
    ELSE IF "max_words_per_submission" \in DOMAIN config
            /\ (config.max_words_per_submission < 1
                \/ config.max_words_per_submission > 10)
         THEN FALSE
    ELSE IF \E f \in {"allow_phrases", "moderate_submissions", "case_sensitive",
                      "show_live_results"} :
                f \in DOMAIN config /\ config[f] \notin BOOLEAN
         THEN FALSE
    ELSE IF "banned_words" \in DOMAIN config
            /\ \E i \in DOMAIN config.banned_words : Strip(config.banned_words[i]) = <<>>
         THEN FALSE
    ELSE TRUE

\* WordCloudActivity.process_response
WordCloudProcessResponse(config, participant_id, response_data, t) ==
    LET words == Get(response_data, "words", JList(<<>>))
    IN  IF words.t # "list" THEN PollReject("not a list")
        ELSE IF Len(words.v) = 0 THEN PollReject("no word")
        ELSE IF Len(words.v) > Get(config, "max_words_per_submission", 3)
             THEN PollReject("too many words")
        ELSE IF \E i \in DOMAIN words.v : WordRaises(config, words.v[i])
             THEN PollReject("invalid word")
        ELSE [ok |-> TRUE, reason |-> "",
              payload |-> Some([type |-> "word_submission",
                                participant_id |-> participant_id,
                                words |-> [i \in DOMAIN words.v |->
                                              CleanWord(config, words.v[i].v)],
                                timestamp |-> t,
                                status |-> SubmissionStatus(
                                               Get(config, "moderate_submissions", TRUE))])]

RECURSIVE Concat(_)
\* all_words.extend(words) over a sequence of word lists
Concat(lists) == IF lists = <<>> THEN <<>> ELSE Head(lists) \o Concat(Tail(lists))

RECURSIVE Distinct(_)
\* the keys of a Counter in insertion order
Distinct(seq) ==
    IF seq = <<>> THEN <<>>
    ELSE LET rest == Distinct(SubSeq(seq, 1, Len(seq) - 1))
         IN  IF seq[Len(seq)] \in Range(rest) THEN rest ELSE Append(rest, seq[Len(seq)])

RECURSIVE MostCommon(_, _)
\* Counter.most_common(): the words by descending frequency, ties in
\* insertion order
MostCommon(words, freq) ==
    IF words = <<>> THEN <<>>
    ELSE LET top == Max({freq[words[i]] : i \in DOMAIN words})
         IN  SelectSeq(words, LAMBDA w : freq[w] = top)
             \o MostCommon(SelectSeq(words, LAMBDA w : freq[w] # top), freq)

\* the smaller of two numbers
Min2(x, y) == IF x < y THEN x ELSE y

\* WordCloudActivity.calculate_results(responses)
WordCloudCalculateResults(config, history) ==
    IF \E i \in DOMAIN history : history[i].response_data.t # "dict"
    THEN [type |-> "word_cloud_results",
          error |-> Some("Failed to calculate results"),
          total_responses |-> Len(history)]
    ELSE
    LET docs == [i \in DOMAIN history |-> history[i].response_data.v]
        approved == SelectSeq(docs, LAMBDA d : /\ HasType(d, "word_submission")
                                               /\ Get(d, "status", "approved") = "approved")
        all_words == Concat([i \in DOMAIN approved |-> Get(approved[i], "words", <<>>)])
        keys == Distinct(all_words)
        word_frequencies == [w \in Range(keys) |-> CountIn(all_words, w)]
        most_common == LET mc == MostCommon(keys, word_frequencies)
                       IN  SubSeq(mc, 1, Min2(50, Len(mc)))
        max_frequency == IF keys # <<>>
                         THEN Max({word_frequencies[w] : w \in Range(keys)}) ELSE 1
    IN  [type |-> "word_cloud_results",
         error |-> None,
         prompt |-> Get(config, "prompt", ""),
         word_cloud_data |->
             [i \in DOMAIN most_common |->
                 LET frequency == word_frequencies[most_common[i]]
                 IN  [word |-> most_common[i],
                      frequency |-> frequency,
                      size |-> Min2(100, Max({10, (frequency * 100) \div max_frequency})),
                      percentage |-> PollPercentage(frequency, Len(all_words))]],
         word_frequencies |-> word_frequencies,
         unique_word_count |-> Len(keys),
         total_word_submissions |-> Len(all_words),
         participant_count |-> Len(approved)]

\* WordCloudActivity.get_default_metadata()
WordCloudDefaultMetadata ==
    [duration_seconds |-> Some(600),
     max_responses |-> Some(100),
     allow_multiple_responses |-> TRUE,
     show_live_results |-> TRUE,
     activity_type |-> "word_cloud",
     requires_moderation |-> TRUE]

----------------------------------------------------------------------------
\* Registry (activity_framework/registry.py, registration.py)

\* dict operations: d[k] = v, del d[k], {**d, **o}
Put(d, k, v) == [x \in (DOMAIN d) \cup {k} |-> IF x = k THEN v ELSE d[x]]
Del(d, k) == [x \in (DOMAIN d) \ {k} |-> d[x]]
Merge_defaults_win(d, o) ==
    [x \in (DOMAIN d) \cup (DOMAIN o) |-> IF x \in DOMAIN d THEN d[x] ELSE o[x]]
Merge(d, o) == [x \in (DOMAIN d) \cup (DOMAIN o) |-> IF x \in DOMAIN o THEN o[x] ELSE d[x]]

\* The classes that extend BaseActivity
ActivityClasses == {"PollingActivity", "QnaActivity", "WordCloudActivity"}

\* issubclass(activity_class, BaseActivity)
issubclass(activity_class) == activity_class \in ActivityClasses

\* activity_type.replace("_", " ").title()
Title(activity_type) ==
    CASE activity_type = "poll"           -> "Poll"
      [] activity_type = "qna"            -> "Qna"
      [] activity_type = "word_cloud"     -> "Word Cloud"
      [] activity_type = "planning_poker" -> "Planning Poker"

\* `value or default` for an optional string
StrOr(opt, default) == IF opt = None \/ opt = Some("") THEN default ELSE opt[1]

\* What a registry call returns: a value, or the ValueError it raises
Raise(err) == [ok |-> FALSE, err |-> err, value |-> None]
Return(v) == [ok |-> TRUE, err |-> "", value |-> Some(v)]

\* The ActivityTypeInfo register() builds
ActivityTypeInfo(activity_type, activity_class, schema, name, description, version) ==
    [activity_class |-> activity_class,
     schema |-> schema,
     metadata |-> [id |-> activity_type,
                   name |-> StrOr(name, Title(activity_type)),
                   description |-> StrOr(description, activity_type \o " activity"),
                   version |-> version]]

\* a register that replaces an existing registration
register_overwrite(reg, activity_type, activity_class, schema, name, description, version) ==
    IF ~issubclass(activity_class)
    THEN [ok |-> FALSE, err |-> "NotAnActivityClass", reg |-> reg]
    ELSE [ok |-> TRUE, err |-> "",
          reg |-> Put(reg, activity_type,
                      ActivityTypeInfo(activity_type, activity_class, schema,
                                       name, description, version))]

\* ActivityRegistry.register on registry reg: [ok, err, reg after the call]
register(reg, activity_type, activity_class, schema, name, description, version) ==
    IF activity_type \in DOMAIN reg
    THEN [ok |-> FALSE, err |-> "DuplicateKind", reg |-> reg]
    ELSE IF ~issubclass(activity_class)
    THEN [ok |-> FALSE, err |-> "NotAnActivityClass", reg |-> reg]
    ELSE [ok |-> TRUE, err |-> "",
          reg |-> Put(reg, activity_type,
                      ActivityTypeInfo(activity_type, activity_class, schema,
                                       name, description, version))]

\* ActivityRegistry.unregister: <<returned bool, registry after the call>>
unregister(reg, activity_type) ==
    IF activity_type \in DOMAIN reg
    THEN <<TRUE, Del(reg, activity_type)>>
    ELSE <<FALSE, reg>>

\* ActivityRegistry.clear_registry
clear_registry(reg) == <<>>

is_registered(activity_type) == activity_type \in DOMAIN registry

get_activity_class(activity_type) ==
    IF activity_type \notin DOMAIN registry
    THEN Raise("UnknownKind")
    ELSE Return(registry[activity_type].activity_class)

\* a get_schema that answers an empty schema for a kind it does not know
get_schema_or_empty(activity_type) ==
    IF activity_type \notin DOMAIN registry
    THEN Return("{}")
    ELSE Return(registry[activity_type].schema)

get_schema(activity_type) ==
    IF activity_type \notin DOMAIN registry
    THEN Raise("UnknownKind")
    ELSE Return(registry[activity_type].schema)

get_metadata(activity_type) ==
    IF activity_type \notin DOMAIN registry
    THEN Raise("UnknownKind")
    ELSE Return(registry[activity_type].metadata)

\* ActivityRegistry.get_all_types
get_all_types == [k \in DOMAIN registry |-> registry[k].metadata]

\* ActivityRegistry.create_activity: activity_class(activity_id, config), an
\* instance being [activity_class, activity_id, config] (BaseActivity.__init__)
create_activity(activity_type, activity_id, config) ==
    LET c == get_activity_class(activity_type)
    IN  IF ~c.ok THEN c
        ELSE Return([activity_class |-> c.value[1],
                     activity_id |-> activity_id,
                     config |-> config])

\* a startup that leaves the word cloud out
register_activity_types_two_kinds(reg) ==
    LET r1 == register(reg, "poll", "PollingActivity", "PollingActivity.SCHEMA",
                       Some("Polling"), Some("Multiple choice polls and surveys where participants vote on options"), "1.0.0")
        r2 == register(r1.reg, "qna", "QnaActivity", "QnaActivity.SCHEMA",
                       Some("Q&A Session"), Some("Question and answer sessions where participants submit and vote on questions"), "1.0.0")
    IN  IF ~r1.ok THEN r1 ELSE r2

\* register_activity_types(): the three register calls in order, the first
\* failure raised to the caller: [ok, err, reg after the call]
register_activity_types(reg) ==
    LET r1 == register(reg, "poll", "PollingActivity", "PollingActivity.SCHEMA",
                       Some("Polling"), Some("Multiple choice polls and surveys where participants vote on options"), "1.0.0")
        r2 == register(r1.reg, "qna", "QnaActivity", "QnaActivity.SCHEMA",
                       Some("Q&A Session"), Some("Question and answer sessions where participants submit and vote on questions"), "1.0.0")
        r3 == register(r2.reg, "word_cloud", "WordCloudActivity", "WordCloudActivity.SCHEMA",
                       Some("Word Cloud"), Some("Collect words and phrases from participants to create word cloud visualizations"), "1.0.0")
    IN  IF ~r1.ok THEN r1 ELSE IF ~r2.ok THEN r2 ELSE r3

\* The registry once the application has started
StartupRegistry == register_activity_types(<<>>).reg

\* The methods of an instance, dispatched on its class
validate_config(instance, config) ==
    CASE instance.activity_class = "PollingActivity" -> PollValidateConfig(config)
      [] instance.activity_class = "QnaActivity" -> QnaValidateConfig(config)
      [] instance.activity_class = "WordCloudActivity" -> WordCloudValidateConfig(config)

process_response(instance, participant_id, response_data, t) ==
    CASE instance.activity_class = "PollingActivity" ->
            PollProcessResponse(instance.config, participant_id, response_data, t)
      [] instance.activity_class = "QnaActivity" ->
            QnaProcessResponse(instance.config, participant_id, response_data, t)
      [] instance.activity_class = "WordCloudActivity" ->
            WordCloudProcessResponse(instance.config, participant_id, response_data, t)

get_default_metadata(instance) ==
    CASE instance.activity_class = "PollingActivity" -> PollDefaultMetadata
      [] instance.activity_class = "QnaActivity" -> QnaDefaultMetadata
      [] instance.activity_class = "WordCloudActivity" -> WordCloudDefaultMetadata

calculate_results(instance, history) ==
    CASE instance.activity_class = "PollingActivity" ->
            PollCalculateResults(instance.config, history)
      [] instance.activity_class = "QnaActivity" ->
            QnaCalculateResults(instance.config, history)
      [] instance.activity_class = "WordCloudActivity" ->
            WordCloudCalculateResults(instance.config, history)

----------------------------------------------------------------------------
\* Inputs of the requests

\* activity_type of a creation request: a registered kind and an unknown one
TypeInputs == {"poll", "planning_poker"}

\* configuration documents of a creation request
ConfigInputs ==
    { [question |-> "Q", options |-> <<"A", "B">>],
      [question |-> "Q", options |-> <<"A", "B">>, allow_multiple_choice |-> TRUE],
      [question |-> "Q", options |-> <<"A">>] }

\* duration_seconds values: None or a number of seconds
DurationValues == {None} \cup {Some(d) : d \in 0..MaxDuration}

\* activity_metadata of a creation request: none, or a document whose
\* duration_seconds is one of DurationValues
MetadataInputs == {<<>>} \cup {[duration_seconds |-> dv] : dv \in DurationValues}

\* response_data documents of a submission
OptionInputs == {"A", "X"}
ResponseInputs ==
    { [selected_options |-> JList(<<>>)],
      [selected_options |-> JStr("A")],
      [comment |-> JStr("A")] }
    \cup { [selected_options |-> JList(<<o>>)] : o \in OptionInputs }
    \cup { [selected_options |-> JList(<<"A", o>>)] : o \in OptionInputs }

----------------------------------------------------------------------------
\* What a handler reports back

Result(op, aid, target, force, ok, err) ==
    [op |-> op, aid |-> aid, target |-> target, force |-> force,
     ok |-> ok, err |-> err,
     valid_transitions |-> <<>>,   \* the list an InvalidTransition error carries
     expired |-> {},               \* the ids check_and_expire_activities returns
     participant |-> 0,            \* of a submission
     response_data |-> None,       \* the submitted document
     processed |-> None,           \* what process_response returned
     hook_calls |-> <<>>]          \* the calls of kind hooks the handler made

NoHist == [forced |-> FALSE, activated |-> FALSE]

\* The callers that may run check_and_expire_activities at the same time
Sweepers == {1, 2}

\* A sweep that is not running: pc is its position, loaded the rows as its
\* query read them, rows the same objects in its session (mutated by the
\* state machine), expired the ids check_expired_activities returned, done
\* the ids its last finished run returned.
IdleSweeper ==
    [pc |-> "idle", loaded |-> <<>>, rows |-> <<>>, expired |-> {}, done |-> {}]

\* The callers that may run process_activity_response while other requests
\* are served
Submitters == {1}

\* A submission that is not running: pc is its position, aid the activity it
\* is for, db_activity the row as its query read it.
IdleSubmitter == [pc |-> "idle", aid |-> "", db_activity |-> NoActivity]

Init ==
    /\ activities = [a \in ActivityIds |-> NoActivity]
    /\ responses = <<>>
    /\ now = 0
    /\ last = Result("init", "", "", FALSE, TRUE, "")
    /\ hist = [a \in ActivityIds |-> NoHist]
    /\ sweepers = [s \in Sweepers |-> IdleSweeper]
    /\ inflight = [s \in Submitters |-> IdleSubmitter]
    /\ registry = StartupRegistry

----------------------------------------------------------------------------
\* Orchestrator (activity_service.py) behind its routes (routes/activities.py)

\* ActivityService.create_framework_activity
CreateFrameworkActivity(a, activity_type, configuration, metadata, session_found) ==
    LET base == [Result("create", a, "", FALSE, FALSE, "")
                    EXCEPT !.response_data =
                        Some([activity_type |-> activity_type,
                              configuration |-> configuration,
                              activity_metadata |-> metadata])]
    IN
    /\ ~activities[a].exists
    /\ UNCHANGED <<responses, now, hist, sweepers, inflight, registry>>
    /\ IF ~is_registered(activity_type)
       THEN /\ last' = [base EXCEPT !.err = "UnknownKind"]
            /\ UNCHANGED activities
       ELSE IF ~validate_config(create_activity(activity_type, None, configuration).value[1],
                                configuration)
       THEN /\ last' = [base EXCEPT !.err = "InvalidConfig"]
            /\ UNCHANGED activities
       ELSE IF ~session_found
       THEN /\ last' = [base EXCEPT !.err = "NotFound"]
            /\ UNCHANGED activities
       ELSE /\ activities' = [activities EXCEPT ![a] =
                [exists |-> TRUE,
                 type |-> activity_type,
                 configuration |-> configuration,
                 activity_metadata |->
                     Merge(get_default_metadata(
                               create_activity(activity_type, None, configuration).value[1]),
                           metadata),
                 status |-> STATUS_DRAFT,
                 state |-> DRAFT,
                 expires_at |-> None,
                 updated_at |-> now]]
            /\ last' = [base EXCEPT !.ok = TRUE]

\* a request schema without the pattern
TargetMatchesPattern_any(target_state) == TRUE

\* ActivityTransitionRequest.target_state: pattern ^(draft|published|active|expired)$
TargetMatchesPattern(target_state) ==
    target_state \in {"draft", "published", "active", "expired"}

\* legacy status update of transition_activity_state
legacy_status(act, target_state) ==
    IF target_state = ACTIVE THEN [act EXCEPT !.status = STATUS_ACTIVE]
    ELSE IF target_state = EXPIRED THEN [act EXCEPT !.status = STATUS_COMPLETED]
    ELSE act

\* POST /activities/{id}/transition -> ActivityService.transition_activity_state
TransitionActivityState(a, target_state, force) ==
    /\ UNCHANGED <<responses, now, sweepers, inflight, registry>>
    /\ IF ~TargetMatchesPattern(target_state)
       THEN /\ last' = Result("transition", a, target_state, force, FALSE, "ValidationError")
            /\ UNCHANGED <<activities, hist>>
       ELSE IF ~activities[a].exists
       THEN /\ last' = Result("transition", a, target_state, force, FALSE, "NotFound")
            /\ UNCHANGED <<activities, hist>>
       ELSE LET r == transition(activities[a], target_state, force, now)
            IN  IF ~r[1]
                THEN /\ last' = [Result("transition", a, target_state, force, FALSE,
                                        "InvalidTransition")
                                 EXCEPT !.valid_transitions =
                                     get_valid_transitions(r[2].state)]
                     /\ UNCHANGED <<activities, hist>>
                ELSE /\ activities' = [activities EXCEPT ![a] =
                                          legacy_status(r[2], target_state)]
                     /\ last' = Result("transition", a, target_state, force, TRUE, "")
                     /\ hist' = [hist EXCEPT ![a] =
                           [forced |-> @.forced
                               \/ ~can_transition(activities[a].state, target_state),
                            activated |-> @.activated
                               \/ (target_state = ACTIVE
                                   /\ duration_of(activities[a]) # None)]]

\* UserResponseService.create_user_response(db, session_id, activity_id,
\* participant_id, response_data): insert one row into user_responses
create_user_response(rows, activity_id, participant_id, response_data) ==
    Append(rows, [activity_id |-> activity_id,
                  participant_id |-> participant_id,
                  response_data |-> response_data])

\* a check that lets an EXPIRED activity through as well
accepts_responses_after_expiry(act) == act.state \in {ACTIVE, EXPIRED}

\* a check that also turns away an activity whose expires_at has passed
accepts_responses_until_due(act) ==
    act.state = ACTIVE /\ (act.expires_at = None \/ now < act.expires_at[1])

\* the check "activity is active" of process_activity_response
accepts_responses(act) == act.state = ACTIVE

\* POST /activities/{id}/responses -> ActivityService.process_activity_response
ProcessActivityResponse(a, participant_id, response_data) ==
    LET base == [Result("submit", a, "", FALSE, FALSE, "")
                    EXCEPT !.participant = participant_id,
                           !.response_data = Some(response_data)]
    IN
    /\ UNCHANGED <<activities, now, hist, sweepers, inflight, registry>>
    /\ IF ~activities[a].exists
       THEN /\ last' = [base EXCEPT !.err = "NotFound"]
            /\ UNCHANGED responses
       ELSE IF ~accepts_responses(activities[a])
       THEN /\ last' = [base EXCEPT !.err = "NotActive"]
            /\ UNCHANGED responses
       ELSE LET r == process_response(
                         create_activity(activities[a].type, a,
                                         activities[a].configuration).value[1],
                         participant_id, response_data, now)
            IN  IF ~r.ok
                THEN /\ last' = [base EXCEPT !.err = "InvalidResponse"]
                     /\ UNCHANGED responses
                ELSE /\ Len(responses) < MaxResponses
                     /\ responses' = create_user_response(
                                        responses, a, participant_id, r.payload[1])
                     /\ last' = [base EXCEPT !.ok = TRUE, !.processed = r.payload]

\* ActivityStateMachine.check_expired_activities(activities) at time t, for the
\* candidate ids cand of table tbl: <<table after the call, ids returned>>
\* the test with a strict comparison of the clock
IsDue_strict(act, t) ==
    /\ act.state = ACTIVE
    /\ act.expires_at # None
    /\ t > act.expires_at[1]

IsDue(act, t) ==
    /\ act.state = ACTIVE
    /\ act.expires_at # None
    /\ t >= act.expires_at[1]

check_expired_activities(tbl, cand, t) ==
    LET res == [a \in cand |->
                   IF IsDue(tbl[a], t)
                   THEN transition(tbl[a], EXPIRED, FALSE, t)
                   ELSE <<FALSE, tbl[a]>>]
    IN  << [a \in DOMAIN tbl |-> IF a \in cand THEN res[a][2] ELSE tbl[a]],
           {a \in cand : res[a][1]} >>

\* the query of check_and_expire_activities: ACTIVE rows with an expires_at
SweepCandidates(tbl) ==
    {a \in DOMAIN tbl : /\ tbl[a].exists
                        /\ tbl[a].state = ACTIVE
                        /\ tbl[a].expires_at # None}

\* ActivityService.check_and_expire_activities
CheckAndExpireActivities ==
    LET r == check_expired_activities(activities, SweepCandidates(activities), now)
    IN  /\ activities' = r[1]
        /\ last' = [Result("sweep", "", "", FALSE, TRUE, "") EXCEPT !.expired = r[2]]
        /\ UNCHANGED <<responses, now, hist, sweepers, inflight, registry>>

\* the host clock advances
Tick ==
    /\ now < MaxTime
    /\ now' = now + 1
    /\ last' = Result("tick", "", "", FALSE, TRUE, "")
    /\ UNCHANGED <<activities, responses, hist, sweepers, inflight, registry>>

\* check_and_expire_activities as the event loop runs it: the coroutine yields
\* at `await db.execute(query)` and at `await db.commit()`, so another call
\* may run between its query, its in-memory check and its commit.  Each call
\* has its own session, hence its own copies of the rows.

\* `await db.execute(query)`: the session loads the ACTIVE rows with expires_at
SweepQuery(s) ==
    /\ sweepers[s].pc = "idle"
    /\ LET cand == SweepCandidates(activities)
           snap == [a \in cand |-> activities[a]]
       IN  sweepers' = [sweepers EXCEPT ![s] =
               [pc |-> "loaded", loaded |-> snap, rows |-> snap,
                expired |-> {}, done |-> {}]]
    /\ last' = [Result("sweep_query", "", "", FALSE, TRUE, "")
                   EXCEPT !.participant = s]
    /\ UNCHANGED <<activities, responses, now, hist, inflight, registry>>

\* ActivityStateMachine.check_expired_activities(activities) on the session's rows
SweepCheck(s) ==
    /\ sweepers[s].pc = "loaded"
    /\ LET r == check_expired_activities(sweepers[s].rows,
                                         DOMAIN sweepers[s].rows, now)
       IN  sweepers' = [sweepers EXCEPT ![s].pc = "checked",
                                        ![s].rows = r[1],
                                        ![s].expired = r[2]]
    /\ last' = [Result("sweep_check", "", "", FALSE, TRUE, "")
                   EXCEPT !.participant = s]
    /\ UNCHANGED <<activities, responses, now, hist, inflight, registry>>

\* a commit whose UPDATE statements are lost
flush_lost(row, loaded, mem) == row

\* the UPDATE the session emits for one row at commit: the columns whose
\* value in the session differs from the value loaded
flush(row, loaded, mem) ==
    [row EXCEPT
        !.state = IF mem.state # loaded.state THEN mem.state ELSE @,
        !.updated_at = IF mem.updated_at # loaded.updated_at
                       THEN mem.updated_at ELSE @,
        !.expires_at = IF mem.expires_at # loaded.expires_at
                       THEN mem.expires_at ELSE @]

\* `if expired_activities: await db.commit()` and the return of the ids
SweepCommit(s) ==
    /\ sweepers[s].pc = "checked"
    /\ activities' =
          [a \in ActivityIds |->
              IF a \in DOMAIN sweepers[s].rows /\ sweepers[s].expired # {}
              THEN flush(activities[a], sweepers[s].loaded[a], sweepers[s].rows[a])
              ELSE activities[a]]
    /\ sweepers' = [sweepers EXCEPT ![s] =
                       [IdleSweeper EXCEPT !.done = sweepers[s].expired]]
    /\ last' = [Result("sweep", "", "", FALSE, TRUE, "")
                   EXCEPT !.expired = sweepers[s].expired, !.participant = s]
    /\ UNCHANGED <<responses, now, hist, inflight, registry>>

\* GET /activities/types -> ActivityService.get_activity_types
GetActivityTypes ==
    /\ last' = [Result("list_types", "", "", FALSE, TRUE, "")
                   EXCEPT !.processed =
                       Some([k \in DOMAIN get_all_types |->
                                [id |-> k,
                                 name |-> get_all_types[k].name,
                                 description |-> get_all_types[k].description,
                                 version |-> get_all_types[k].version]])]
    /\ UNCHANGED <<activities, responses, now, hist, sweepers, inflight, registry>>

\* GET /activities/types/{type}/schema -> ActivityService.get_activity_type_schema
GetActivityTypeSchema(activity_type) ==
    LET r == get_schema(activity_type)
    IN  /\ last' = [Result("type_schema", activity_type, "", FALSE, r.ok, r.err)
                       EXCEPT !.processed = r.value]
        /\ UNCHANGED <<activities, responses, now, hist, sweepers, inflight, registry>>

\* POST /activities/validate -> ActivityService.validate_activity_config
ValidateActivityConfig(activity_type, configuration) ==
    LET inst == create_activity(activity_type, None, configuration)
        is_valid == IF inst.ok THEN validate_config(inst.value[1], configuration)
                    ELSE FALSE
    IN  /\ last' = [Result("validate", activity_type, "", FALSE, TRUE, "")
                       EXCEPT !.processed = Some([valid |-> is_valid])]
        /\ UNCHANGED <<activities, responses, now, hist, sweepers, inflight, registry>>

\* a stored payload as the JSON column gives it back
AsJson(payload) ==
    IF "selected_options" \in DOMAIN payload
    THEN JDict([payload EXCEPT !.selected_options = JList(@)])
    ELSE JDict(payload)

\* the rows of user_responses of one activity, as calculate_results gets them
HistoryOf(a) ==
    LET rows == SelectSeq(responses, LAMBDA r : r.activity_id = a)
    IN  [i \in DOMAIN rows |-> [response_data |-> AsJson(rows[i].response_data)]]

\* GET /activities/{id}/results -> ActivityService.get_activity_results
GetActivityResults(a) ==
    /\ IF ~activities[a].exists
       THEN last' = Result("results", a, "", FALSE, FALSE, "NotFound")
       ELSE last' = [Result("results", a, "", FALSE, TRUE, "")
                        EXCEPT !.processed =
                            Some(calculate_results(
                                     create_activity(activities[a].type, a,
                                                     activities[a].configuration).value[1],
                                     HistoryOf(a)))]
    /\ UNCHANGED <<activities, responses, now, hist, sweepers, inflight, registry>>

\* Lifecycle specification: one single-choice poll, every metadata and
\* transition input, the sweep, the clock, and a submission in every state.
LifecycleConfigInputs ==
    { [question |-> "Q", options |-> <<"A", "B">>],
      [question |-> "Q", options |-> <<"A">>] }

LifecycleResponseInputs ==
    { [selected_options |-> JList(<<"A">>)], [selected_options |-> JList(<<"X">>)] }

\* a submission of an option the poll does not have
UnknownOptionInputs == { [selected_options |-> JList(<<"X">>)] }

Next ==
    \/ \E a \in LifecycleIds, ty \in TypeInputs, c \in LifecycleConfigInputs,
          m \in MetadataInputs, sf \in BOOLEAN :
            CreateFrameworkActivity(a, ty, c, m, sf)
    \/ \E a \in LifecycleIds, tg \in TargetInputs, f \in BOOLEAN :
            TransitionActivityState(a, tg, f)
    \/ \E a \in LifecycleIds, rd \in UnknownOptionInputs :
            ProcessActivityResponse(a, 1, rd)
    \/ CheckAndExpireActivities
    \/ Tick

Spec == Init /\ [][Next]_vars

\* Response specification: one poll with a one-second duration moved by
\* non-forced transitions and the sweep, every submission input of one
\* participant.
NextResponses ==
    \/ \E a \in LifecycleIds, c \in ConfigInputs :
            CreateFrameworkActivity(a, "poll", c, [duration_seconds |-> Some(1)], TRUE)
    \/ \E a \in LifecycleIds, tg \in ActivityState :
            TransitionActivityState(a, tg, FALSE)
    \/ \E a \in LifecycleIds, rd \in ResponseInputs :
            ProcessActivityResponse(a, 1, rd)
    \/ CheckAndExpireActivities
    \/ Tick

SpecResponses == Init /\ [][NextResponses]_vars

\* Poll specification: one poll, single or multiple choice, opened and closed
\* by non-forced transitions at one instant, every submission input of every
\* participant, and the results.
NextPoll ==
    \/ \E a \in LifecycleIds, c \in ConfigInputs :
            CreateFrameworkActivity(a, "poll", c, <<>>, TRUE)
    \/ \E a \in LifecycleIds, tg \in {PUBLISHED, ACTIVE, EXPIRED} :
            TransitionActivityState(a, tg, FALSE)
    \/ \E a \in LifecycleIds, p \in Participants, rd \in ResponseInputs :
            ProcessActivityResponse(a, p, rd)
    \/ \E a \in LifecycleIds : GetActivityResults(a)

SpecPoll == Init /\ [][NextPoll]_vars

\* Sweep specification: two polls, with and without a duration, moved by
\* non-forced transitions.
NextSweep ==
    \/ \E a \in ActivityIds, m \in {[duration_seconds |-> None], [duration_seconds |-> Some(1)]} :
            CreateFrameworkActivity(a, "poll", [question |-> "Q", options |-> <<"A", "B">>],
                                    m, TRUE)
    \/ \E a \in ActivityIds, tg \in ActivityState :
            TransitionActivityState(a, tg, FALSE)
    \/ CheckAndExpireActivities
    \/ Tick

SpecSweep == Init /\ [][NextSweep]_vars

\* The registry calls, as startup code and tests make them

\* arguments of the registry calls
RegistryKindInputs == {"poll", "planning_poker"}
ClassInputs == {"PollingActivity", "QnaActivity", "dict"}
SchemaInputs == {"PollingActivity.SCHEMA", "QnaActivity.SCHEMA"}
NameInputs == {None, Some("Polling")}
DescriptionInputs == {None, Some("Polls")}

\* The application before startup: nothing registered, no rows
InitRegistry ==
    /\ activities = [a \in ActivityIds |-> NoActivity]
    /\ responses = <<>>
    /\ now = 0
    /\ last = Result("boot", "", "", FALSE, TRUE, "")
    /\ hist = [a \in ActivityIds |-> NoHist]
    /\ sweepers = [s \in Sweepers |-> IdleSweeper]
    /\ inflight = [s \in Submitters |-> IdleSubmitter]
    /\ registry = <<>>

\* ActivityRegistry.register(activity_type, activity_class, schema, name, description)
Register(activity_type, activity_class, schema, name, description) ==
    LET r == register(registry, activity_type, activity_class, schema,
                      name, description, "1.0.0")
    IN  /\ registry' = r.reg
        /\ last' = [Result("register", activity_type, "", FALSE, r.ok, r.err)
                       EXCEPT !.response_data =
                           Some([activity_class |-> activity_class,
                                 schema |-> schema,
                                 name |-> name,
                                 description |-> description])]
        /\ UNCHANGED <<activities, responses, now, hist, sweepers, inflight>>

\* ActivityRegistry.unregister(activity_type)
Unregister(activity_type) ==
    LET r == unregister(registry, activity_type)
    IN  /\ registry' = r[2]
        /\ last' = Result("unregister", activity_type, "", FALSE, r[1], "")
        /\ UNCHANGED <<activities, responses, now, hist, sweepers, inflight>>

\* ActivityRegistry.clear_registry()
ClearRegistry ==
    /\ registry' = clear_registry(registry)
    /\ last' = Result("clear_registry", "", "", FALSE, TRUE, "")
    /\ UNCHANGED <<activities, responses, now, hist, sweepers, inflight>>

\* One of the lookups, r being what it returned or raised
Lookup(op, activity_type, r) ==
    /\ last' = [Result(op, activity_type, "", FALSE, r.ok, r.err)
                   EXCEPT !.processed = r.value]
    /\ UNCHANGED <<activities, responses, now, hist, sweepers, inflight, registry>>

GetActivityClass(activity_type) ==
    Lookup("get_activity_class", activity_type, get_activity_class(activity_type))

GetSchema(activity_type) ==
    Lookup("get_schema", activity_type, get_schema(activity_type))

GetMetadata(activity_type) ==
    Lookup("get_metadata", activity_type, get_metadata(activity_type))

CreateActivity(activity_type, activity_id, config) ==
    Lookup("create_activity", activity_type,
           create_activity(activity_type, activity_id, config))

\* Registry specification: every registry call on two kind ids, from an
\* empty registry.
NextRegistry ==
    \/ \E k \in RegistryKindInputs, c \in ClassInputs, sc \in SchemaInputs,
          n \in NameInputs, d \in DescriptionInputs :
            Register(k, c, sc, n, d)
    \/ \E k \in RegistryKindInputs : Unregister(k)
    \/ ClearRegistry
    \/ \E k \in RegistryKindInputs : GetActivityClass(k)
    \/ \E k \in RegistryKindInputs : GetSchema(k)
    \/ \E k \in RegistryKindInputs : GetMetadata(k)
    \/ \E k \in RegistryKindInputs, a \in {None, Some("a1")}, c \in LifecycleConfigInputs :
            CreateActivity(k, a, c)

SpecRegistry == InitRegistry /\ [][NextRegistry]_vars

\* The application from its startup on

\* startup_event: register_activity_types()
Startup ==
    /\ last.op = "boot"
    /\ LET r == register_activity_types(registry)
       IN  /\ registry' = r.reg
           /\ last' = Result("startup", "", "", FALSE, r.ok, r.err)
    /\ UNCHANGED <<activities, responses, now, hist, sweepers, inflight>>

\* requests are served once the startup event has run
Started == last.op # "boot" /\ ~(last.op = "startup" /\ ~last.ok)

\* activity_metadata of a creation request with other keys than the duration
CreateMetadataInputs ==
    { <<>>,
      [duration_seconds |-> Some(1)],
      [duration_seconds |-> None, show_live_results |-> FALSE],
      [max_responses |-> Some(5), custom |-> "x"] }

\* Startup specification: the startup event, then every request of the
\* activity routes on one activity.
NextStartup ==
    \/ Startup
    \/ Started /\ GetActivityTypes
    \/ Started /\ \E ty \in TypeInputs : GetActivityTypeSchema(ty)
    \/ Started /\ \E ty \in TypeInputs, c \in LifecycleConfigInputs :
            ValidateActivityConfig(ty, c)
    \/ Started /\ \E a \in LifecycleIds, ty \in TypeInputs,
                     c \in LifecycleConfigInputs \cup {<<>>},
                     m \in CreateMetadataInputs, sf \in BOOLEAN :
            CreateFrameworkActivity(a, ty, c, m, sf)
    \/ Started /\ \E a \in LifecycleIds, tg \in ActivityState :
            TransitionActivityState(a, tg, FALSE)
    \/ Started /\ \E a \in LifecycleIds, rd \in LifecycleResponseInputs :
            ProcessActivityResponse(a, 1, rd)
    \/ Started /\ \E a \in LifecycleIds : GetActivityResults(a)
    \/ Started /\ CheckAndExpireActivities
    \/ Started /\ Tick

SpecStartup == InitRegistry /\ [][NextStartup]_vars

\* calculate_results as a function of the configuration and the history

\* entries of a history: two well-formed poll responses, and entries that
\* are not: a null document, a document without selected_options, with a
\* null, with a string, and with an option the poll does not have
HistoryEntryInputs ==
    { [response_data |-> JDict([type |-> "poll_response",
                                selected_options |-> JList(<<"A">>)])],
      [response_data |-> JDict([type |-> "poll_response",
                                selected_options |-> JList(<<"B">>)])],
      [response_data |-> JNull],
      [response_data |-> JDict([type |-> "poll_response"])],
      [response_data |-> JDict([type |-> "poll_response",
                                selected_options |-> JNull])],
      [response_data |-> JDict([type |-> "poll_response",
                                selected_options |-> JStr("A")])],
      [response_data |-> JDict([type |-> "poll_response",
                                selected_options |-> JList(<<"X">>)])] }

\* the histories of at most MaxHistory entries
HistoryInputs ==
    UNION { [1..n -> HistoryEntryInputs] : n \in 0..MaxHistory }

\* A poll of kind "poll" and a history wait to be aggregated
InitResults ==
    /\ activities = [a \in ActivityIds |-> NoActivity]
    /\ responses = <<>>
    /\ now = 0
    /\ \E c \in ConfigInputs, h \in HistoryInputs :
          /\ PollValidateConfig(c)
          /\ last = [Result("input", "poll", "", FALSE, TRUE, "")
                        EXCEPT !.response_data = Some([config |-> c, history |-> h])]
    /\ hist = [a \in ActivityIds |-> NoHist]
    /\ sweepers = [s \in Sweepers |-> IdleSweeper]
    /\ inflight = [s \in Submitters |-> IdleSubmitter]
    /\ registry = StartupRegistry

\* activity_instance.calculate_results(response_data)
CalculateResults ==
    /\ last.op = "input"
    /\ LET inp == last.response_data[1]
           inst == create_activity(last.aid, None, inp.config).value[1]
       IN  last' = [last EXCEPT !.op = "calculate_results",
                                !.processed = Some(calculate_results(inst, inp.history))]
    /\ UNCHANGED <<activities, responses, now, hist, sweepers, inflight, registry>>

NextResults == CalculateResults

SpecResults == InitResults /\ [][NextResults]_vars

\* Percentages of a single-choice poll as a function of its options and of
\* how many responses chose each

\* option texts a poll may be configured with
OptionNames == <<"A", "B", "C", "D", "E", "F", "G", "H", "I", "J", "K">>

\* the single-choice configurations with the first n option texts that
\* validate_config accepts
PercentConfigInputs ==
    { c \in { [question |-> "Q", options |-> SubSeq(OptionNames, 1, n)] :
                 n \in 0..Len(OptionNames) } : PollValidateConfig(c) }

RECURSIVE Distributions(_, _)
\* the ways total responses spread over n options: one count per option
Distributions(n, total) ==
    IF n = 0 THEN (IF total = 0 THEN {<<>>} ELSE {})
    ELSE UNION { { Append(d, k) : d \in Distributions(n - 1, total - k) } :
                    k \in 0..total }

RECURSIVE HistoryFrom(_, _)
\* a history in which counts[i] responses chose options[i], as stored by
\* process_response for a single-choice poll
HistoryFrom(options, counts) ==
    IF options = <<>> THEN <<>>
    ELSE [i \in 1..Head(counts) |->
              [response_data |-> JDict([type |-> "poll_response",
                                        selected_options |-> JList(<<Head(options)>>)])]]
         \o HistoryFrom(Tail(options), Tail(counts))

\* A single-choice poll and the history of its responses wait to be aggregated
InitPercent ==
    /\ activities = [a \in ActivityIds |-> NoActivity]
    /\ responses = <<>>
    /\ now = 0
    /\ \E c \in PercentConfigInputs, total \in 0..MaxVotes :
          \E counts \in Distributions(Len(c.options), total) :
              last = [Result("input", "poll", "", FALSE, TRUE, "")
                         EXCEPT !.response_data =
                             Some([config |-> c,
                                   history |-> HistoryFrom(c.options, counts)])]
    /\ hist = [a \in ActivityIds |-> NoHist]
    /\ sweepers = [s \in Sweepers |-> IdleSweeper]
    /\ inflight = [s \in Submitters |-> IdleSubmitter]
    /\ registry = StartupRegistry

NextPercent == CalculateResults

SpecPercent == InitPercent /\ [][NextPercent]_vars

\* Q&A results as a function of the configuration and the history

\* configurations of a Q&A session
QnaConfigInputs ==
    { [topic |-> "T"],
      [topic |-> "T", allow_multiple_votes |-> TRUE],
      [topic |-> "T", moderate_questions |-> TRUE],
      [topic |-> "T", enable_voting |-> FALSE, allow_anonymous |-> FALSE] }

\* response_data documents of a Q&A submission: questions, votes on the
\* questions the participants may have asked at time 0, and documents that
\* are neither
QnaResponseInputs ==
    { [type |-> "question", question_text |-> "T"],
      [type |-> "question", question_text |-> "T", anonymous |-> FALSE],
      [type |-> "question", question_text |-> " "],
      [type |-> "vote"],
      [type |-> "answer"] }
    \cup { [type |-> "vote", question_id |-> QuestionId(0, p)] : p \in Participants }

\* the entries process_response has stored for configuration config
QnaHistoryEntryInputs(config) ==
    { [response_data |-> AsJson(QnaProcessResponse(config, p, rd, 0).payload[1])] :
        <<p, rd>> \in { x \in Participants \X QnaResponseInputs :
                           QnaProcessResponse(config, x[1], x[2], 0).ok } }

\* A Q&A session and the history of its responses wait to be aggregated
InitQnaResults ==
    /\ activities = [a \in ActivityIds |-> NoActivity]
    /\ responses = <<>>
    /\ now = 0
    /\ \E c \in QnaConfigInputs, n \in 0..MaxHistory :
          \E h \in [1..n -> QnaHistoryEntryInputs(c)] :
              /\ QnaValidateConfig(c)
              /\ last = [Result("input", "qna", "", FALSE, TRUE, "")
                            EXCEPT !.response_data = Some([config |-> c, history |-> h])]
    /\ hist = [a \in ActivityIds |-> NoHist]
    /\ sweepers = [s \in Sweepers |-> IdleSweeper]
    /\ inflight = [s \in Submitters |-> IdleSubmitter]
    /\ registry = StartupRegistry

NextQnaResults == CalculateResults

SpecQnaResults == InitQnaResults /\ [][NextQnaResults]_vars

\* Q&A and word cloud activities behind the orchestrator

\* words a participant may submit: plain, in upper case, with a punctuation
\* mark, of four characters
WordAB == <<"a", "b">>
WordABUpper == <<"A", "B">>
WordABMark == <<"a", "!", "b">>
WordABCD == <<"a", "b", "c", "d">>
WordCD == <<"c", "d">>

\* configurations of a word cloud
WordCloudConfigInputs ==
    { [prompt |-> "P"],
      [prompt |-> "P", max_word_length |-> 3, moderate_submissions |-> FALSE,
       banned_words |-> <<WordABUpper>>],
      [prompt |-> "P", banned_words |-> <<WordABMark>>] }

\* response_data documents of a word cloud submission: lists of one or two
\* words, of a null, of nothing, and a null in place of the list
WordCloudResponseInputs ==
    { [words |-> JList(<<JWord(w)>>)] :
         w \in {WordAB, WordABUpper, WordABMark, WordABCD, WordCD} }
    \cup { [words |-> JList(<<JWord(WordCD), JWord(WordABUpper)>>)],
           [words |-> JList(<<JNull>>)],
           [words |-> JList(<<>>)],
           [words |-> JNull] }

\* response_data documents of a Q&A submission of participant 1
KindsQnaResponseInputs ==
    { [type |-> "question", question_text |-> "T"],
      [type |-> "vote", question_id |-> QuestionId(0, 1)],
      [type |-> "answer"] }

\* Kinds specification: one Q&A session or word cloud, opened and closed by
\* non-forced transitions at one instant, the submissions of one participant,
\* and the results.
NextKinds ==
    \/ \E a \in LifecycleIds, ty \in {"qna", "word_cloud"},
          c \in QnaConfigInputs \cup WordCloudConfigInputs :
            CreateFrameworkActivity(a, ty, c, <<>>, TRUE)
    \/ \E a \in LifecycleIds, tg \in {PUBLISHED, ACTIVE, EXPIRED} :
            TransitionActivityState(a, tg, FALSE)
    \/ \E a \in LifecycleIds,
          rd \in KindsQnaResponseInputs \cup WordCloudResponseInputs :
            ProcessActivityResponse(a, 1, rd)
    \/ \E a \in LifecycleIds : GetActivityResults(a)

SpecKinds == Init /\ [][NextKinds]_vars

\* The advisory validation as a function of its four arguments

\* A transition request waits to be validated
InitValidate ==
    /\ activities = [a \in ActivityIds |-> NoActivity]
    /\ responses = <<>>
    /\ now = 0
    /\ \E c \in TargetInputs, tg \in TargetInputs, ty \in {"poll", "qna"},
          cfg \in ConfigInputs :
            last = [Result("input", ty, tg, FALSE, TRUE, "")
                       EXCEPT !.response_data =
                           Some([current_state |-> c, config |-> cfg])]
    /\ hist = [a \in ActivityIds |-> NoHist]
    /\ sweepers = [s \in Sweepers |-> IdleSweeper]
    /\ inflight = [s \in Submitters |-> IdleSubmitter]
    /\ registry = StartupRegistry

\* ActivityStateMachine.validate_state_transition_request(current_state,
\* target_state, activity_type, activity_config)
ValidateStateTransitionRequest ==
    /\ last.op = "input"
    /\ last' = [last EXCEPT
                  !.op = "validate_transition",
                  !.processed = Some(validate_state_transition_request(
                                         last.response_data[1].current_state,
                                         last.target, last.aid,
                                         last.response_data[1].config))]
    /\ UNCHANGED <<activities, responses, now, hist, sweepers, inflight, registry>>

NextValidate == ValidateStateTransitionRequest

SpecValidate == InitValidate /\ [][NextValidate]_vars

\* process_activity_response as the event loop runs it: the coroutine yields
\* at `await db.execute(query)` and at the insert, so a transition or a sweep
\* of another request may commit between the load of the row and the insert.
\* No lock is taken and the row is not read again.

\* `await db.execute(query)`: the session loads the activity row
SubmitLoad(s, a) ==
    /\ inflight[s].pc = "idle"
    /\ inflight' = [inflight EXCEPT ![s] =
                       [pc |-> "loaded", aid |-> a, db_activity |-> activities[a]]]
    /\ last' = [Result("submit_load", a, "", FALSE, TRUE, "") EXCEPT !.participant = s]
    /\ UNCHANGED <<activities, responses, now, hist, sweepers, registry>>

\* the checks on the loaded row, process_response and the insert
SubmitStore(s, participant_id, response_data) ==
    LET a == inflight[s].aid
        db_activity == inflight[s].db_activity
        base == [Result("submit_store", a, "", FALSE, FALSE, "")
                    EXCEPT !.participant = participant_id,
                           !.response_data = Some(response_data)]
    IN
    /\ inflight[s].pc = "loaded"
    /\ inflight' = [inflight EXCEPT ![s] = IdleSubmitter]
    /\ UNCHANGED <<activities, now, hist, sweepers, registry>>
    /\ IF ~db_activity.exists
       THEN /\ last' = [base EXCEPT !.err = "NotFound"]
            /\ UNCHANGED responses
       ELSE IF ~accepts_responses(db_activity)
       THEN /\ last' = [base EXCEPT !.err = "NotActive"]
            /\ UNCHANGED responses
       ELSE LET r == process_response(
                         create_activity(db_activity.type, a,
                                         db_activity.configuration).value[1],
                         participant_id, response_data, now)
            IN  IF ~r.ok
                THEN /\ last' = [base EXCEPT !.err = "InvalidResponse"]
                     /\ UNCHANGED responses
                ELSE /\ Len(responses) < MaxResponses
                     /\ responses' = create_user_response(
                                        responses, a, participant_id, r.payload[1])
                     /\ last' = [base EXCEPT !.ok = TRUE, !.processed = r.payload]

\* Race specification: one poll with a one-second duration or none, moved by
\* non-forced transitions and the sweep while a submission is in progress.
NextRace ==
    \/ \E a \in LifecycleIds, m \in {[duration_seconds |-> None], [duration_seconds |-> Some(1)]} :
            CreateFrameworkActivity(a, "poll", [question |-> "Q", options |-> <<"A", "B">>],
                                    m, TRUE)
    \/ \E a \in LifecycleIds, tg \in {PUBLISHED, ACTIVE, EXPIRED} :
            TransitionActivityState(a, tg, FALSE)
    \/ \E s \in Submitters, a \in LifecycleIds : SubmitLoad(s, a)
    \/ \E s \in Submitters, rd \in LifecycleResponseInputs : SubmitStore(s, 1, rd)
    \/ CheckAndExpireActivities
    \/ Tick

SpecRace == Init /\ [][NextRace]_vars

\* Periodic sweep specification: one poll of any duration moved by
\* non-forced transitions, with a clock that keeps advancing and a sweep that
\* is invoked again and again (the background task the docstring of
\* check_and_expire_activities asks for).
NextPeriodic ==
    \/ \E a \in LifecycleIds, m \in MetadataInputs :
            CreateFrameworkActivity(a, "poll", [question |-> "Q", options |-> <<"A", "B">>],
                                    m, TRUE)
    \/ \E a \in LifecycleIds, tg \in ActivityState :
            TransitionActivityState(a, tg, FALSE)
    \/ CheckAndExpireActivities
    \/ Tick

SpecPeriodic ==
    /\ Init
    /\ [][NextPeriodic]_vars
    /\ WF_vars(Tick)
    /\ WF_vars(CheckAndExpireActivities)

\* Concurrent sweep specification: one poll, with or without a duration,
\* moved by non-forced transitions, and two sweeps that may overlap.
NextConcurrent ==
    \/ \E a \in LifecycleIds, m \in {[duration_seconds |-> None], [duration_seconds |-> Some(1)]} :
            CreateFrameworkActivity(a, "poll", [question |-> "Q", options |-> <<"A", "B">>],
                                    m, TRUE)
    \/ \E a \in LifecycleIds, tg \in {PUBLISHED, ACTIVE, EXPIRED} :
            TransitionActivityState(a, tg, FALSE)
    \/ \E s \in Sweepers : SweepQuery(s)
    \/ \E s \in Sweepers : SweepCheck(s)
    \/ \E s \in Sweepers : SweepCommit(s)
    \/ Tick

SpecConcurrent == Init /\ [][NextConcurrent]_vars

----------------------------------------------------------------------------
\* Properties

\* The transition table as the specification states it
ClaimTable ==
    [s \in {"draft", "published", "active", "expired"} |->
        CASE s = "draft"     -> {"published"}
          [] s = "published" -> {"active", "draft"}
          [] s = "active"    -> {"expired"}
          [] s = "expired"   -> {}]

\* The step just taken is a transition request on an existing activity with
\* one of the four lifecycle states as its target.
IsTransitionStep(force) ==
    /\ last'.op = "transition"
    /\ last'.force = force
    /\ last'.target \in ActivityState
    /\ activities[last'.aid].exists

\* C1 (part 1): for every pair of lifecycle states can_transition is true
\* exactly when the target is in the fixed table.
C1_CanTransitionIsTable ==
    \A c \in ActivityState, tg \in ActivityState :
        can_transition(c, tg) <=> tg \in ClaimTable[c]

\* C1 (part 2): a non-forced transition succeeds, and writes the target into
\* the activity's state, exactly when the table has the move.
C1_TransitionStep ==
    IsTransitionStep(FALSE) =>
        LET a == last'.aid
        IN  /\ last'.ok <=> last'.target \in ClaimTable[activities[a].state]
            /\ last'.ok => activities'[a].state = last'.target
            /\ ~last'.ok => activities'[a].state = activities[a].state

\* C1: can_transition is membership in the fixed table DRAFT->{PUBLISHED},
\* PUBLISHED->{ACTIVE, DRAFT}, ACTIVE->{EXPIRED}, EXPIRED->{}, and a non-forced
\* transition succeeds and writes the target state exactly when can_transition
\* holds.
C1_TableDecidesTransition ==
    /\ []C1_CanTransitionIsTable
    /\ [][C1_TransitionStep]_vars

C1_Witness ==
    /\ last.op = "transition" /\ ~last.force /\ last.ok
    /\ last.target = EXPIRED
    /\ activities[last.aid].state = EXPIRED

\* C2: EXPIRED is terminal: a step that is not a forced transition request
\* (a non-forced request, a sweep, a submission, a creation, a clock tick)
\* leaves an EXPIRED activity EXPIRED.
C2_ExpiredIsTerminal ==
    [][\A a \in ActivityIds :
          (/\ activities[a].exists
           /\ activities[a].state = EXPIRED
           /\ ~(last'.op = "transition" /\ last'.force))
          => (activities'[a].exists /\ activities'[a].state = EXPIRED)]_vars

C2_Witness ==
    /\ last.op = "transition" /\ ~last.force /\ ~last.ok
    /\ last.err = "InvalidTransition"
    /\ activities[last.aid].state = EXPIRED

\* C3: a submission to an activity that is DRAFT, PUBLISHED or EXPIRED fails
\* with an error and leaves the persisted responses unchanged; a response is
\* only ever added by a submission to an ACTIVE activity.
C3_ResponsesOnlyWhileActive ==
    [][/\ (/\ last'.op = "submit"
           /\ activities[last'.aid].exists
           /\ activities[last'.aid].state \in {DRAFT, PUBLISHED, EXPIRED})
          => (~last'.ok /\ last'.err = "NotActive" /\ responses' = responses)
       /\ responses' # responses
          => /\ last'.op = "submit"
             /\ activities[last'.aid].exists
             /\ activities[last'.aid].state = ACTIVE
             /\ Len(responses') = Len(responses) + 1
             /\ SubSeq(responses', 1, Len(responses)) = responses
             /\ responses'[Len(responses')].activity_id = last'.aid]_vars

C3_Witness ==
    /\ last.op = "submit" /\ ~last.ok /\ last.err = "NotActive"
    /\ activities[last.aid].state = EXPIRED
    /\ Len(responses) = 1

\* A stored poll payload that passed the poll's rules: a non-empty list of
\* configured options, a single one unless multiple choice is allowed.
IsValidatedPollPayload(config, payload) ==
    /\ payload.type = "poll_response"
    /\ Len(payload.selected_options) >= 1
    /\ \A i \in DOMAIN payload.selected_options :
          \E j \in DOMAIN config.options :
              payload.selected_options[i] = config.options[j]
    /\ (Len(payload.selected_options) > 1 =>
          ("allow_multiple_choice" \in DOMAIN config /\ config.allow_multiple_choice))

\* C4 (part 1): a submission to an ACTIVE activity persists exactly the
\* payload process_response returns for it, and when process_response fails
\* nothing is persisted and the caller gets the error.
C4_SubmitStep ==
    (/\ last'.op = "submit"
     /\ activities[last'.aid].exists
     /\ activities[last'.aid].state = ACTIVE)
    => LET act == activities[last'.aid]
           r == process_response(
                    create_activity(act.type, last'.aid, act.configuration).value[1],
                    last'.participant, last'.response_data[1], now)
       IN  IF r.ok
           THEN /\ last'.ok
                /\ last'.processed = r.payload
                /\ responses' = Append(responses,
                       [activity_id |-> last'.aid,
                        participant_id |-> last'.participant,
                        response_data |-> r.payload[1]])
           ELSE /\ ~last'.ok
                /\ last'.err = "InvalidResponse"
                /\ responses' = responses

\* C4 (part 2): every persisted row holds a payload that passed the rules of
\* the kind of its activity.
C4_StoredAreValidated ==
    \A i \in DOMAIN responses :
        /\ activities[responses[i].activity_id].exists
        /\ IsValidatedPollPayload(
               activities[responses[i].activity_id].configuration,
               responses[i].response_data)

\* C4: every persisted response carries exactly the normalized payload the
\* kind's process_response returned for that submission; a submission that
\* process_response rejects persists nothing and returns the error; no raw,
\* unvalidated payload is ever stored.
C4_OnlyNormalizedPayloadsStored ==
    /\ []C4_StoredAreValidated
    /\ [][C4_SubmitStep]_vars

C4_Witness ==
    /\ last.op = "submit" /\ ~last.ok /\ last.err = "InvalidResponse"
    /\ Len(responses) = 1
    /\ responses[1].response_data.selected_options = <<"A">>

\* C5: a non-forced request for a move the table forbids fails with
\* InvalidTransition, reports exactly the valid targets of the current state
\* (["published"] for DRAFT) and leaves the activity record (state,
\* expires_at, updated_at, status) unchanged.
C5_InvalidTransitionReported ==
    [][(/\ IsTransitionStep(FALSE)
        /\ last'.target \notin ClaimTable[activities[last'.aid].state])
       => LET a == last'.aid
          IN  /\ ~last'.ok
              /\ last'.err = "InvalidTransition"
              /\ Range(last'.valid_transitions) = ClaimTable[activities[a].state]
              /\ Len(last'.valid_transitions)
                    = Cardinality(ClaimTable[activities[a].state])
              /\ (activities[a].state = DRAFT
                    => last'.valid_transitions = <<"published">>)
              /\ activities'[a] = activities[a]]_vars

C5_Witness ==
    /\ last.op = "transition" /\ ~last.force /\ ~last.ok
    /\ last.err = "InvalidTransition"
    /\ last.target = ACTIVE
    /\ activities[last.aid].state = DRAFT
    /\ last.valid_transitions = <<"published">>

\* The expires_at an activity has after entering target at time t
ExpiresAfterEntry(act, target, t) ==
    IF target = ACTIVE /\ duration_of(act) # None /\ duration_of(act)[1] # 0
    THEN <<t + duration_of(act)[1]>>
    ELSE IF target = EXPIRED /\ act.expires_at = <<>>
    THEN <<t>>
    ELSE act.expires_at

\* C6: a forced transition succeeds for every current state and every target
\* among the four states, writes the target and runs the entry side effects
\* of that target; a move the table forbids only happens by a forced request.
C6_ForceAlwaysSucceeds ==
    [][/\ IsTransitionStep(TRUE)
          => LET a == last'.aid
             IN  /\ last'.ok
                 /\ activities'[a].state = last'.target
                 /\ activities'[a].updated_at = now
                 /\ activities'[a].expires_at
                       = ExpiresAfterEntry(activities[a], last'.target, now)
       /\ \A a \in ActivityIds :
             (/\ activities[a].exists
              /\ activities'[a].state # activities[a].state
              /\ activities'[a].state \notin ClaimTable[activities[a].state])
             => (last'.op = "transition" /\ last'.force /\ last'.aid = a)]_vars

C6_Witness ==
    /\ last.op = "transition" /\ last.force /\ last.ok
    /\ last.target = ACTIVE
    /\ activities[last.aid].state = ACTIVE
    /\ activities[last.aid].status = STATUS_ACTIVE
    /\ activities[last.aid].expires_at = <<now>>
    /\ duration_of(activities[last.aid]) = None

\* C7: the state of every activity is one of draft, published, active,
\* expired, whatever target value the transition requests carried.
C7_StateIsLifecycleState ==
    \A a \in ActivityIds :
        activities[a].exists =>
            activities[a].state \in {"draft", "published", "active", "expired"}

C7_Witness ==
    /\ last.op = "transition" /\ last.force /\ ~last.ok
    /\ last.target = "archived"
    /\ activities[last.aid].exists

\* C8 as stated: a successful transition into ACTIVE at time t sets
\* expires_at to t + d when the metadata carries duration_seconds = d, and
\* leaves expires_at unchanged when it carries none.
C8_ActivationSetsExpiry ==
    [][(/\ last'.op = "transition" /\ last'.ok /\ last'.target = ACTIVE)
       => LET a == last'.aid
          IN  IF duration_of(activities[a]) # None
              THEN activities'[a].expires_at
                      = <<now + duration_of(activities[a])[1]>>
              ELSE activities'[a].expires_at = activities[a].expires_at]_vars

\* C9 (part 1): a sweep at time now moves to EXPIRED exactly the activities
\* that are ACTIVE with an expires_at <= now, returns exactly those, and
\* leaves every other activity unchanged.
ClaimDue(act, t) ==
    /\ act.exists
    /\ act.state = "active"
    /\ act.expires_at # <<>>
    /\ act.expires_at[1] <= t

C9_SweepStep ==
    last'.op = "sweep" =>
        /\ last'.expired = {a \in ActivityIds : ClaimDue(activities[a], now)}
        /\ \A a \in ActivityIds :
              IF ClaimDue(activities[a], now)
              THEN /\ activities'[a].state = EXPIRED
                   /\ activities'[a].expires_at = activities[a].expires_at
              ELSE activities'[a] = activities[a]

\* C9 (part 2): check_expired_activities on any list of existing activities,
\* ACTIVE or not, transitions and returns exactly the due ones of the list.
C9_AnyCandidates ==
    \A cand \in SUBSET {a \in ActivityIds : activities[a].exists} :
        LET r == check_expired_activities(activities, cand, now)
        IN  /\ r[2] = {a \in cand : ClaimDue(activities[a], now)}
            /\ \A a \in ActivityIds :
                  IF a \in cand /\ ClaimDue(activities[a], now)
                  THEN r[1][a].state = EXPIRED
                  ELSE r[1][a] = activities[a]

\* C9: check_expired run at time now transitions to EXPIRED exactly the input
\* activities that are ACTIVE with expires_at set and expires_at <= now,
\* returns that subset and leaves every other input activity unchanged.
C9_SweepExpiresExactlyDue ==
    /\ []C9_AnyCandidates
    /\ [][C9_SweepStep]_vars

C9_Witness ==
    /\ last.op = "sweep"
    /\ last.expired = {"a1"}
    /\ activities["a1"].state = EXPIRED
    /\ activities["a2"].exists
    /\ activities["a2"].state = ACTIVE
    /\ activities["a2"].expires_at # None
    /\ activities["a2"].expires_at[1] > now

C10_UnsetBeforeActive ==
    \A a \in ActivityIds :
        (/\ activities[a].exists
         /\ ~hist[a].forced
         /\ activities[a].state \in {DRAFT, PUBLISHED})
        => activities[a].expires_at = None

\* C10 amended (part 2): expires_at becomes set only on entering ACTIVE with
\* a non-zero duration_seconds or on entering EXPIRED; creation leaves it unset.
C10_SetStep ==
    \A a \in ActivityIds :
        /\ (~activities[a].exists /\ activities'[a].exists)
              => activities'[a].expires_at = None
        /\ (/\ activities[a].exists
            /\ activities[a].expires_at = None
            /\ activities'[a].expires_at # None)
           => \/ /\ activities'[a].state = ACTIVE
                 /\ duration_of(activities[a]) # None
                 /\ duration_of(activities[a])[1] # 0
              \/ activities'[a].state = EXPIRED

EntersExpired(a) ==
    /\ activities[a].exists
    /\ \/ (last'.op = "transition" /\ last'.ok /\ last'.aid = a
            /\ last'.target = EXPIRED)
       \/ (last'.op = "sweep" /\ a \in last'.expired)

\* C11: on entering EXPIRED expires_at becomes the current time exactly when
\* it was not set, and a set expires_at is left as it was; no step unsets an
\* expires_at, so "not set" is "never set before".
C11_ExpiryStampedOnce ==
    [][\A a \in ActivityIds :
          /\ EntersExpired(a)
                => /\ activities'[a].state = EXPIRED
                   /\ activities'[a].expires_at
                         = IF activities[a].expires_at = <<>>
                           THEN <<now>>
                           ELSE activities[a].expires_at
          /\ (activities[a].exists /\ activities[a].expires_at # <<>>)
                => activities'[a].expires_at # <<>>]_vars

C11_Witness ==
    /\ last.op = "transition" /\ last.ok /\ last.target = EXPIRED
    /\ activities[last.aid].state = EXPIRED
    /\ hist[last.aid].activated
    /\ activities[last.aid].expires_at # None
    /\ activities[last.aid].expires_at[1] < now

\* The activities sweep s holds in its session, between its query and its commit
HeldBy(s) == IF sweepers[s].pc = "idle" THEN {} ELSE DOMAIN sweepers[s].rows

\* C12 (part 1): while a sweep holds an activity that it read as ACTIVE, the
\* stored activity is ACTIVE or EXPIRED and has the expires_at the sweep read;
\* the table rejects EXPIRED -> EXPIRED.
C12_HeldRows ==
    /\ ~can_transition(EXPIRED, EXPIRED)
    /\ \A s \in Sweepers : \A a \in HeldBy(s) :
          /\ activities[a].state \in {ACTIVE, EXPIRED}
          /\ sweepers[s].loaded[a].expires_at # <<>>
          /\ activities[a].expires_at = sweepers[s].loaded[a].expires_at
          /\ sweepers[s].rows[a].expires_at = sweepers[s].loaded[a].expires_at

\* C12 (part 2): the commit of a sweep leaves every activity it returned in
\* EXPIRED with the expires_at it had, whatever the other sweep has done to
\* it in between, and no step moves an activity out of EXPIRED or changes the
\* expires_at of an EXPIRED activity.
C12_CommitStep ==
    /\ \A s \in Sweepers :
          (last'.op = "sweep" /\ last'.participant = s /\ sweepers[s].pc = "checked")
          => \A a \in last'.expired :
                /\ IsDue(sweepers[s].loaded[a], now)
                /\ activities'[a].state = EXPIRED
                /\ activities'[a].expires_at = activities[a].expires_at
    /\ \A a \in ActivityIds :
          (activities[a].exists /\ activities[a].state = EXPIRED)
          => /\ activities'[a].state = EXPIRED
             /\ activities'[a].expires_at = activities[a].expires_at

\* C12: when two sweeps overlap on the same due activity, in every
\* interleaving the activity ends EXPIRED with the expires_at a single sweep
\* leaves (the one set at activation), EXPIRED -> EXPIRED is rejected by the
\* table, and no interleaving leaves the activity in another state.
C12_ConcurrentSweepsSafe ==
    /\ []C12_HeldRows
    /\ [][C12_CommitStep]_vars

\* both sweeps have returned the same activity: they overlapped on it
C12_Witness ==
    /\ \A s \in Sweepers : sweepers[s].pc = "idle" /\ sweepers[s].done = {"a1"}
    /\ activities["a1"].state = EXPIRED
    /\ activities["a1"].expires_at = <<1>>
    /\ activities["a1"].updated_at < now

\* C13: register on a kind id that is already registered fails with
\* DuplicateKind whatever the other arguments are, and leaves the registry,
\* the existing descriptor included, unchanged.
C13_DuplicateRegistrationFails ==
    [][(last'.op = "register" /\ last'.aid \in DOMAIN registry)
       => /\ ~last'.ok
          /\ last'.err = "DuplicateKind"
          /\ registry' = registry]_vars

C13_Witness ==
    /\ last.op = "register" /\ ~last.ok /\ last.err = "DuplicateKind"
    /\ last.aid = "poll"
    /\ last.response_data[1].activity_class = "dict"
    /\ last.response_data[1].schema # registry["poll"].schema
    /\ "planning_poker" \in DOMAIN registry

\* The lookups of the registry
LookupOps == {"get_activity_class", "get_schema", "get_metadata", "create_activity"}

\* C14 (part 1): a lookup of a kind id that is not registered fails with
\* UnknownKind; a lookup of a registered one returns the class, the schema
\* or the metadata of its entry, create_activity an instance of the entry's
\* class; no lookup changes the registry.
C14_LookupStep ==
    last'.op \in LookupOps =>
        /\ registry' = registry
        /\ IF last'.aid \notin DOMAIN registry
           THEN ~last'.ok /\ last'.err = "UnknownKind"
           ELSE /\ last'.ok
                /\ last'.op = "get_activity_class"
                      => last'.processed = <<registry[last'.aid].activity_class>>
                /\ last'.op = "get_schema"
                      => last'.processed = <<registry[last'.aid].schema>>
                /\ last'.op = "get_metadata"
                      => last'.processed = <<registry[last'.aid].metadata>>
                /\ last'.op = "create_activity"
                      => last'.processed[1].activity_class
                            = registry[last'.aid].activity_class

\* C14 (part 2): the entry of a kind id holds what its registration gave:
\* the class, the schema, and a metadata document with the id, the given
\* name and description (or their defaults) and the version; and an entry
\* is written by a successful register only.
C14_RegisterStep ==
    /\ (last'.op = "register" /\ last'.ok)
          => LET k == last'.aid
                 args == last'.response_data[1]
             IN  /\ registry'[k].activity_class = args.activity_class
                 /\ registry'[k].schema = args.schema
                 /\ registry'[k].metadata.id = k
                 /\ args.name # <<>> => registry'[k].metadata.name = args.name[1]
                 /\ args.description # <<>>
                       => registry'[k].metadata.description = args.description[1]
    /\ \A k \in DOMAIN registry' :
          (k \notin DOMAIN registry \/ registry'[k] # registry[k])
          => (last'.op = "register" /\ last'.ok /\ last'.aid = k)

PollConforming(config, entry) ==
    /\ entry.response_data.t = "dict"
    /\ "selected_options" \in DOMAIN entry.response_data.v
    /\ entry.response_data.v.selected_options.t = "list"
    /\ LET sel == entry.response_data.v.selected_options.v
       IN  /\ Len(sel) >= 1
           /\ \A i \in DOMAIN sel : \E j \in DOMAIN config.options : sel[i] = config.options[j]
           /\ Len(sel) > 1 => ("allow_multiple_choice" \in DOMAIN config
                                /\ config.allow_multiple_choice)

\* C18 as stated: calculate_results does not raise on a history with a
\* non-conforming entry and skips that entry: it returns a results document,
\* not an error document, whose aggregates are those of the conforming
\* entries alone.
C18_ResultsSkipMalformed ==
    last.op = "calculate_results" =>
        LET inp == last.response_data[1]
            r == last.processed[1]
            conforming == SelectSeq(inp.history,
                                    LAMBDA e : PollConforming(inp.config, e))
            clean == PollCalculateResults(inp.config, conforming)
        IN  /\ r.error = <<>>
            /\ r.total_responses = Len(conforming)
            /\ r.vote_counts = clean.vote_counts
            /\ r.percentages = clean.percentages
            /\ r.most_popular = clean.most_popular

\* C15 (part 1): once the application has started the registry holds
\* exactly poll, qna and word_cloud, and every request served is one of the
\* request-path operations, none of which is unregister or clear_registry.
C15_RegistryAfterStartup ==
    Started =>
        /\ DOMAIN registry = {"poll", "qna", "word_cloud"}
        /\ last.op \in {"startup", "list_types", "type_schema", "validate", "create",
                         "transition", "submit", "results", "sweep", "tick"}

\* C15 (part 2): the startup event fills the empty registry, and no other
\* step adds, removes or changes an entry.
C15_Step ==
    /\ last'.op = "startup" => (registry = <<>> /\ last'.ok)
    /\ last'.op # "startup" => registry' = registry

\* C15: the registry is populated once at startup and read-only thereafter:
\* after register_activity_types it holds exactly poll, qna and word_cloud and
\* no request-path operation adds, removes or changes an entry.
C15_RegistryReadOnly ==
    /\ []C15_RegistryAfterStartup
    /\ [][C15_Step]_vars

C15_Witness ==
    /\ last.op = "results" /\ last.ok
    /\ last.processed[1].total_responses = 1
    /\ activities[last.aid].state = EXPIRED
    /\ DOMAIN registry = {"poll", "qna", "word_cloud"}
    /\ registry["word_cloud"].activity_class = "WordCloudActivity"

\* C16: create_framework_activity fails and creates no record when the kind
\* is not registered or the kind's validate_config rejects the configuration;
\* on success the record is DRAFT with no expires_at, has the given
\* configuration, and its metadata is the kind's default metadata with every
\* key of the caller's metadata overriding it.
C16_CreateValidatesAndMerges ==
    [][last'.op = "create" =>
        LET a == last'.aid
            args == last'.response_data[1]
            defaults == PollDefaultMetadata
        IN  IF args.activity_type \notin DOMAIN registry
            THEN ~last'.ok /\ activities' = activities
            ELSE IF ~PollValidateConfig(args.configuration)
            THEN ~last'.ok /\ activities' = activities
            ELSE IF ~last'.ok
            THEN last'.err = "NotFound" /\ activities' = activities
            ELSE /\ activities'[a].exists
                 /\ activities'[a].state = "draft"
                 /\ activities'[a].expires_at = <<>>
                 /\ activities'[a].configuration = args.configuration
                 /\ activities'[a].type = args.activity_type
                 /\ DOMAIN activities'[a].activity_metadata
                       = (DOMAIN defaults) \cup (DOMAIN args.activity_metadata)
                 /\ \A k \in DOMAIN activities'[a].activity_metadata :
                       activities'[a].activity_metadata[k]
                          = IF k \in DOMAIN args.activity_metadata
                            THEN args.activity_metadata[k]
                            ELSE defaults[k]
                 /\ \A b \in ActivityIds \ {a} : activities'[b] = activities[b]]_vars

C16_Witness ==
    /\ last.op = "create" /\ last.ok
    /\ activities[last.aid].state = DRAFT
    /\ activities[last.aid].activity_metadata.duration_seconds = <<>>
    /\ activities[last.aid].activity_metadata.show_live_results = FALSE
    /\ activities[last.aid].activity_metadata.requires_moderation = FALSE
    /\ activities[last.aid].activity_metadata.activity_type = "poll"

\* C17 as stated: the orchestrator applies the kind's can_transition_to on
\* top of the table and, on every successful transition, invokes the kind's
\* on_state_change(old_state, new_state, activity_data) once after the state
\* has been written.
C17_HooksHonoured ==
    [][(last'.op = "transition" /\ activities[last'.aid].exists
        /\ last'.target \in ActivityState)
       => /\ last'.ok =>
                last'.hook_calls
                   = << [hook |-> "can_transition_to",
                         current_state |-> activities[last'.aid].state,
                         target_state |-> last'.target],
                        [hook |-> "on_state_change",
                         old_state |-> activities[last'.aid].state,
                         new_state |-> activities'[last'.aid].state] >>
          /\ ~last'.ok => \A i \in DOMAIN last'.hook_calls :
                             last'.hook_calls[i].hook # "on_state_change"]_vars

\* The rule of the spec for a poll submission: selected_options is a
\* non-empty list, every selected option is a configured option, and at
\* most one option is selected unless allow_multiple_choice is true.
ClaimPollAccepts(config, response_data) ==
    /\ "selected_options" \in DOMAIN response_data
    /\ response_data.selected_options.t = "list"
    /\ LET sel == response_data.selected_options.v
       IN  /\ Len(sel) >= 1
           /\ \A i \in DOMAIN sel : \E j \in DOMAIN config.options : sel[i] = config.options[j]
           /\ \/ ("allow_multiple_choice" \in DOMAIN config /\ config.allow_multiple_choice)
              \/ Len(sel) = 1

\* C19 (part 1): on every valid poll configuration and every submission,
\* process_response accepts exactly the submissions the rule accepts.
C19_Function ==
    \A c \in ConfigInputs, rd \in ResponseInputs, p \in Participants :
        PollValidateConfig(c) =>
            (PollProcessResponse(c, p, rd, now).ok <=> ClaimPollAccepts(c, rd))

\* C19 (part 2): a submission to an ACTIVE poll is accepted exactly when the
\* rule accepts it, and fails with InvalidResponse otherwise.
C19_SubmitStep ==
    (/\ last'.op = "submit"
     /\ activities[last'.aid].exists
     /\ activities[last'.aid].state = ACTIVE)
    => IF ClaimPollAccepts(activities[last'.aid].configuration, last'.response_data[1])
       THEN last'.ok
       ELSE ~last'.ok /\ last'.err = "InvalidResponse"

\* C19: poll process_response accepts a submission exactly when
\* selected_options is a non-empty list of configured options and either
\* allow_multiple_choice is true or exactly one option is selected; zero
\* selections, an unknown option, and two or more selections on a
\* single-choice poll fail with InvalidResponse.
C19_PollAcceptsExactlyValid ==
    /\ []C19_Function
    /\ [][C19_SubmitStep]_vars

C19_Witness ==
    /\ last.op = "submit" /\ ~last.ok /\ last.err = "InvalidResponse"
    /\ last.response_data[1] = [selected_options |-> JList(<<"A", "A">>)]
    /\ activities[last.aid].state = ACTIVE
    /\ "allow_multiple_choice" \notin DOMAIN activities[last.aid].configuration
    /\ Len(responses) = 1

RECURSIVE SumOver(_, _)
\* the sum of f over the set S
SumOver(f, S) ==
    IF S = {} THEN 0
    ELSE LET x == CHOOSE y \in S : TRUE
         IN  f[x] + SumOver(f, S \ {x})

\* a poll that does not allow several choices
IsSingleChoice(config) ==
    ~("allow_multiple_choice" \in DOMAIN config /\ config.allow_multiple_choice)

\* C20 (part 1): the results of a single-choice poll over its stored
\* responses have vote counts that add up to total_responses.
C20_StoredAddUp ==
    \A a \in ActivityIds :
        (activities[a].exists /\ IsSingleChoice(activities[a].configuration))
        => LET r == PollCalculateResults(activities[a].configuration, HistoryOf(a))
           IN  /\ r.error = <<>>
               /\ r.total_responses = Len(HistoryOf(a))
               /\ SumOver(r.vote_counts, DOMAIN r.vote_counts) = r.total_responses

\* C20 (part 2): the same of the document a results request returns.
C20_ReturnedAddUp ==
    (/\ last.op = "results" /\ last.ok
     /\ IsSingleChoice(activities[last.aid].configuration))
    => LET r == last.processed[1]
       IN  /\ r.error = <<>>
           /\ SumOver(r.vote_counts, DOMAIN r.vote_counts) = r.total_responses

\* C20: for a poll with allow_multiple_choice = false, after any sequence of
\* submissions, calculate_results over the stored responses has a sum of
\* vote_counts over all options equal to total_responses.
C20_SingleChoiceVotesAddUp ==
    C20_StoredAddUp /\ C20_ReturnedAddUp

C20_Witness ==
    /\ last.op = "results" /\ last.ok
    /\ IsSingleChoice(activities[last.aid].configuration)
    /\ last.processed[1].total_responses = 2
    /\ last.processed[1].vote_counts["A"] = 2
    /\ last.processed[1].vote_counts["B"] = 0
    /\ responses[1].participant_id # responses[2].participant_id

\* The absolute value of an integer
Abs(x) == IF x < 0 THEN 0 - x ELSE x

\* the percentages of a results document, in tenths of a percent, added up
PercentSum(r) == SumOver(r.percentages, DOMAIN r.percentages)

\* C21 as stated: with total_responses > 0 the percentages of a single-choice
\* poll of 2 to 10 options add up to 100 within 0.1, and with no response
\* every percentage is 0.0.
C21_PercentagesSumTo100 ==
    (last.op = "calculate_results" /\ last.aid = "poll"
     /\ IsSingleChoice(last.response_data[1].config))
    => LET r == last.processed[1]
       IN  IF r.total_responses > 0
           THEN Abs(PercentSum(r) - 1000) <= 1
           ELSE \A o \in DOMAIN r.percentages : r.percentages[o] = 0

\* C21 amended: every percentage is count/total*100 rounded to one decimal
\* (at most 0.05 away from the exact quotient), so with total_responses > 0
\* the percentages add up to 100 within 0.05 times the number of options;
\* with no response every percentage is 0.0.
C21_PercentagesWithinRounding ==
    (last.op = "calculate_results" /\ last.aid = "poll"
     /\ IsSingleChoice(last.response_data[1].config))
    => LET r == last.processed[1]
           n == Len(last.response_data[1].config.options)
       IN  /\ r.error = <<>>
           /\ DOMAIN r.percentages = Range(last.response_data[1].config.options)
           /\ IF r.total_responses > 0
              THEN /\ \A o \in DOMAIN r.percentages :
                         2 * Abs(r.percentages[o] * r.total_responses
                                    - 1000 * r.vote_counts[o])
                            <= r.total_responses
                   /\ 2 * Abs(PercentSum(r) - 1000) <= n
              ELSE \A o \in DOMAIN r.percentages : r.percentages[o] = 0

\* six options with one response each: 16.7 six times
C21_Witness ==
    /\ last.op = "calculate_results"
    /\ Len(last.response_data[1].config.options) = 6
    /\ last.processed[1].total_responses = 6
    /\ \A o \in DOMAIN last.processed[1].percentages :
          last.processed[1].percentages[o] = 167
    /\ PercentSum(last.processed[1]) = 1002

\* the participants with a vote on question id in the history
VotersOf(history, id) ==
    { history[i].response_data.v.participant_id :
        i \in { j \in DOMAIN history :
                   /\ HasType(history[j].response_data.v, "vote")
                   /\ history[j].response_data.v.question_id = id } }

\* the questions a Q&A results document shows
ShownQuestions(r) == Range(r.approved_questions) \cup Range(r.pending_questions)

\* the history without its entry i
WithoutEntry(history, i) ==
    SubSeq(history, 1, i - 1) \o SubSeq(history, i + 1, Len(history))

\* entry i of the history is a vote its participant has cast on the same
\* question before
IsRepeatedVote(history, i) ==
    /\ HasType(history[i].response_data.v, "vote")
    /\ \E j \in 1..(i - 1) :
          /\ HasType(history[j].response_data.v, "vote")
          /\ history[j].response_data.v.question_id
                = history[i].response_data.v.question_id
          /\ history[j].response_data.v.participant_id
                = history[i].response_data.v.participant_id

\* C22: with allow_multiple_votes = false, over any history of stored
\* responses the vote_count of a question is the number of distinct
\* participants with a vote on it, and a vote a participant repeats on a
\* question leaves every vote_count as it is without that vote.
C22_VoteCountIsDistinctVoters ==
    (/\ last.op = "calculate_results" /\ last.aid = "qna"
     /\ ~Get(last.response_data[1].config, "allow_multiple_votes", FALSE))
    => LET c == last.response_data[1].config
           h == last.response_data[1].history
           r == last.processed[1]
       IN  /\ r.error = <<>>
           /\ \A q \in ShownQuestions(r) :
                 q.vote_count = Cardinality(VotersOf(h, q.id))
           /\ \A i \in DOMAIN h :
                 IsRepeatedVote(h, i) =>
                    LET r0 == calculate_results(
                                  create_activity("qna", None, c).value[1],
                                  WithoutEntry(h, i))
                    IN  /\ Len(r0.approved_questions) = Len(r.approved_questions)
                        /\ \A k \in DOMAIN r.approved_questions :
                              /\ r0.approved_questions[k].id = r.approved_questions[k].id
                              /\ r0.approved_questions[k].vote_count
                                    = r.approved_questions[k].vote_count

\* a question with two votes of one participant and a vote_count of 1
C22_Witness ==
    /\ last.op = "calculate_results" /\ last.aid = "qna"
    /\ "allow_multiple_votes" \notin DOMAIN last.response_data[1].config
    /\ last.processed[1].total_votes = 2
    /\ Len(last.processed[1].approved_questions) = 1
    /\ last.processed[1].approved_questions[1].vote_count = 1
    /\ last.processed[1].approved_questions[1].voters = <<2>>

\* the words of a submitted document that are strings
SubmittedWords(response_data) ==
    IF "words" \in DOMAIN response_data /\ response_data.words.t = "list"
    THEN { response_data.words.v[i].v :
              i \in { j \in DOMAIN response_data.words.v :
                         response_data.words.v[j].t = "str" } }
    ELSE {}

\* the submission has a word equal to a banned word but for the case
HasBannedWord(config, response_data) ==
    \E w \in SubmittedWords(response_data) :
        \E i \in DOMAIN Get(config, "banned_words", <<>>) :
            Lower(w) = Lower(config.banned_words[i])

\* the submission has a word whose normalized form is longer than
\* max_word_length
HasLongWord(config, response_data) ==
    \E w \in SubmittedWords(response_data) :
        Len(CleanWord(config, w)) > Get(config, "max_word_length", 20)

\* C23 as stated: a word cloud submission with a word equal, but for the
\* case, to an entry of banned_words is rejected, so is one with a word whose
\* normalized form is longer than max_word_length, and a rejected submission
\* stores nothing.
C23_BannedAndLongRejected ==
    [][(/\ last'.op = "submit"
        /\ activities[last'.aid].exists
        /\ activities[last'.aid].type = "word_cloud")
       => LET c == activities[last'.aid].configuration
              rd == last'.response_data[1]
          IN  /\ HasBannedWord(c, rd) => ~last'.ok
              /\ HasLongWord(c, rd) => ~last'.ok
              /\ ~last'.ok => responses' = responses]_vars

\* The activation prerequisite of the spec: a poll has at least two options
ClaimActivationPrerequisites(activity_type, config) ==
    activity_type = "poll" => Len(config.options) >= 2

\* C24 as stated: validate_transition_request returns valid = true exactly
\* when the table permits the move and, for target ACTIVE, the activation
\* prerequisites of the kind hold (a poll with fewer than two options gets
\* valid = false and an error); a move the table forbids gets valid = false
\* and a non-empty errors list; nothing is mutated.
C24_AdvisoryValidation ==
    last.op = "validate_transition" =>
        LET c == last.response_data[1].current_state
            tg == last.target
            r == last.processed[1]
            permitted == c \in DOMAIN ClaimTable /\ tg \in ClaimTable[c]
            prerequisites == tg = "active" =>
                ClaimActivationPrerequisites(last.aid, last.response_data[1].config)
        IN  /\ r.valid <=> (permitted /\ prerequisites)
            /\ ~r.valid => Len(r.errors) > 0
            /\ activities = [a \in ActivityIds |-> NoActivity]
            /\ responses = <<>>

\* C25 as stated: under any interleaving of a submission with a transition or
\* a sweep on the same activity, a response is persisted only while the
\* stored state of its activity is ACTIVE at the moment of the write.
C25_NoWriteUnlessActive ==
    [][responses' # responses
       => LET row == responses'[Len(responses')]
          IN  /\ activities[row.activity_id].exists
              /\ activities[row.activity_id].state = ACTIVE]_vars

\* C26: whether a submission is accepted depends on the stored state and on
\* the rules of the kind, never on expires_at: an ACTIVE activity whose
\* expires_at has passed accepts and persists a valid response, and it stays
\* ACTIVE until a sweep or a transition request moves it.
C26_AcceptanceIgnoresExpiry ==
    [][/\ (last'.op = "submit" /\ activities[last'.aid].exists)
          => LET act == activities[last'.aid]
             IN  /\ last'.ok <=> (/\ act.state = "active"
                                  /\ ClaimPollAccepts(act.configuration,
                                                      last'.response_data[1]))
                 /\ last'.ok => /\ Len(responses') = Len(responses) + 1
                                /\ responses'[Len(responses')].activity_id = last'.aid
       /\ \A a \in ActivityIds :
             (/\ activities[a].exists
              /\ activities[a].state = ACTIVE
              /\ activities'[a].state # ACTIVE)
             => last'.op \in {"sweep", "transition"}]_vars

\* a response accepted and stored after expires_at has passed
C26_Witness ==
    /\ last.op = "submit" /\ last.ok
    /\ activities[last.aid].state = ACTIVE
    /\ activities[last.aid].expires_at # None
    /\ activities[last.aid].expires_at[1] < now
    /\ Len(responses) = 1

\* Activity a is ACTIVE with a positive duration_seconds in its metadata, and
\* the clock of the model reaches the end of that duration
ActiveWithDuration(a) ==
    /\ activities[a].exists
    /\ activities[a].state = ACTIVE
    /\ duration_of(activities[a]) # None
    /\ duration_of(activities[a])[1] > 0
    /\ activities[a].updated_at + duration_of(activities[a])[1] <= MaxTime

\* C27: with the sweep invoked again and again while the clock advances, and
\* no forced transition, every activity that has entered ACTIVE with a
\* positive duration_seconds eventually is EXPIRED.
C27_EventuallyExpired ==
    \A a \in LifecycleIds :
        ActiveWithDuration(a) ~> (activities[a].exists /\ activities[a].state = EXPIRED)

\* the sweep has expired an activity that nobody closed by hand
C27_Witness ==
    /\ last.op = "sweep"
    /\ last.expired = {"a1"}
    /\ activities["a1"].state = EXPIRED
    /\ duration_of(activities["a1"]) = Some(1)
    /\ activities["a1"].expires_at = Some(now)
    /\ ~hist["a1"].forced

\* C28: through orchestrator transitions and expiry sweeps the legacy status
\* follows the lifecycle state: state ACTIVE implies status ACTIVE and state
\* EXPIRED implies status COMPLETED.
C28_LegacyStatusConsistent ==
    \A a \in ActivityIds :
        activities[a].exists =>
            /\ activities[a].state = ACTIVE => activities[a].status = STATUS_ACTIVE
            /\ activities[a].state = EXPIRED => activities[a].status = STATUS_COMPLETED

\* the rows stored for activity a by participant p
RowsOf(a, p) ==
    {i \in 1..Len(responses) : /\ responses[i].activity_id = a
                               /\ responses[i].participant_id = p}

\* C29: for an activity whose metadata has allow_multiple_responses false, at
\* most one response per participant is stored.
C29_OneResponsePerParticipant ==
    \A a \in ActivityIds :
        (/\ activities[a].exists
         /\ ~activities[a].activity_metadata.allow_multiple_responses)
            => \A p \in Participants : Cardinality(RowsOf(a, p)) <= 1

\* the activity is a Q&A session or a word cloud with moderation on
Moderated(a) ==
    /\ activities[a].exists
    /\ \/ /\ activities[a].type = "qna"
          /\ Get(activities[a].configuration, "moderate_questions", FALSE)
       \/ /\ activities[a].type = "word_cloud"
          /\ Get(activities[a].configuration, "moderate_submissions", TRUE)

\* every stored question or word submission of a moderated activity is
\* pending, and no stored document of one is approved
StoredPending ==
    \A i \in 1..Len(responses) :
        Moderated(responses[i].activity_id) =>
            LET d == responses[i].response_data
            IN  /\ "status" \in DOMAIN d => d.status = "pending"
                /\ (HasType(d, "question") \/ HasType(d, "word_submission"))
                       => "status" \in DOMAIN d

\* the results just computed for a moderated activity show nothing
ResultsShowNothing ==
    (last.op = "results" /\ last.ok /\ Moderated(last.aid)) =>
        LET res == last.processed[1]
        IN  /\ res.error = None
            /\ activities[last.aid].type = "qna" =>
                   /\ res.approved_questions = <<>>
                   /\ res.pending_questions = <<>>
            /\ activities[last.aid].type = "word_cloud" =>
                   res.unique_word_count = 0

\* C30: with moderation on, every accepted submission is stored pending, no
\* step changes a stored document, and the results of the Q&A session have
\* no approved and no pending question and those of the word cloud have
\* unique_word_count 0.
C30_ModerationHidesEverything ==
    [][/\ \A i \in 1..Len(responses) : responses'[i] = responses[i]
       /\ StoredPending'
       /\ ResultsShowNothing']_vars

\* results of a moderated Q&A session and of a moderated word cloud computed
\* over a stored submission
C30_Witness ==
    /\ last.op = "results"
    /\ last.ok
    /\ Moderated(last.aid)
    /\ \E i \in 1..Len(responses) :
           /\ responses[i].activity_id = last.aid
           /\ "status" \in DOMAIN responses[i].response_data
           /\ responses[i].response_data.status = "pending"

====
